---- MODULE Spec2Model ----
(***************************************************************************)
(* Compliance engine of regent-sdk: ManagedHost.assess_compliance,         *)
(* assess_compliance_in_parallel and reach_compliance driving the          *)
(* attribute catalog (apt, yum/dnf, pacman, service, lineinfile, command,  *)
(* ping, debug) against a managed host.                                    *)
(*                                                                         *)
(* The managed host is modelled by the facts the attributes probe: which   *)
(* tools are on the PATH, whether the package is installed, the state of   *)
(* the systemd unit, and the lines of the file.  A remediation command     *)
(* exits with a code the environment picks; exit code 0 applies the        *)
(* command's effect on the host, any other code leaves the host as it was. *)
(* A Command attribute's shell command is opaque: it has no effect on the  *)
(* modelled facts.                                                         *)
(***************************************************************************)
EXTENDS Integers, Sequences, FiniteSets, TLC

\* ---------------------------------------------------------------- bounds
MaxAttrs == 2      \* longest ExpectedState explored
MaxOps == 2        \* operations a caller runs one after another on the host
MaxLines == 1      \* longest initial file explored
MaxCalls == 3      \* calls made one after another on an Ssh2 handler
MaxResults == 3    \* API call results of one step

\* ------------------------------------------------------- the managed host
TheLine == "L"                 \* the line a lineinfile attribute is about
OtherLine == "x"               \* any other line of the file
AllTools == {"apt-get", "dpkg", "dnf", "yum", "pacman", "systemctl", "sed"}
BareTools == {"dpkg", "yum", "sed"}

RECURSIVE SeqsUpTo(_, _)
SeqsUpTo(S, n) ==
    IF n = 0 THEN {<<>>}
    ELSE LET shorter == SeqsUpTo(S, n - 1)
         IN  shorter \cup {Append(s, x) : s \in {t \in shorter : Len(t) = n - 1}, x \in S}

\* svc.odd: the exit code systemctl gives to both of its queries whatever the
\* unit's state (0: none, the queries answer from the unit's state)
ServiceStates ==
    {[exists |-> FALSE, active |-> FALSE, enabled |-> FALSE, odd |-> 0]}
    \cup [exists : {TRUE}, active : BOOLEAN, enabled : BOOLEAN, odd : {0}]

\* CommandResult.return_code of the probes, as the host answers them.  dpkg
\* also knows a package that was removed with its configuration left behind
\* (h.residual): `dpkg -s` then exits 0 and prints "Status: deinstall ok
\* config-files" instead of "Status: install ok installed".
RcPackageQuery(h) == IF h.pkg \/ h.residual THEN 0 ELSE 1
RcIsActive(h) ==
    IF h.svc.odd # 0 THEN h.svc.odd
    ELSE IF ~h.svc.exists THEN 4 ELSE IF h.svc.active THEN 0 ELSE 3
RcIsEnabled(h) ==
    IF h.svc.odd # 0 THEN h.svc.odd
    ELSE IF ~h.svc.exists THEN 4 ELSE IF h.svc.enabled THEN 0 ELSE 1
RcTestF(h) == IF h.isfile THEN 0 ELSE 1
WcL(h) == Len(h.file)
\* `grep -n` lists the matching line numbers in increasing order
RECURSIVE GrepN(_, _, _)
GrepN(f, line, k) ==
    IF k > Len(f) THEN <<>>
    ELSE IF f[k] = line THEN <<k>> \o GrepN(f, line, k + 1)
    ELSE GrepN(f, line, k + 1)

\* `sed -i 'N i line' file` inserts the line before line N (no-op when the
\* file has fewer than N lines); `sed -i 'Ad;Bd' file` deletes those lines.
SedInsert(f, n, line) ==
    IF n >= 1 /\ n <= Len(f)
    THEN SubSeq(f, 1, n - 1) \o <<line>> \o SubSeq(f, n, Len(f))
    ELSE f
RECURSIVE SedDelete(_, _, _)
SedDelete(f, nums, k) ==
    IF k > Len(f) THEN <<>>
    ELSE IF \E m \in 1..Len(nums) : nums[m] = k THEN SedDelete(f, nums, k + 1)
    ELSE <<f[k]>> \o SedDelete(f, nums, k + 1)

\* --------------------------------------------------------------- commands
\* A shell command is the sequence of its words; run(cmd, privilege) is one
\* HostHandler::run_command request.
PackageName == "pkg"
ServiceName == "svc"
FilePath == "file"

run(cmd, privilege) == [cmd |-> cmd, privilege |-> privilege]
\* HostHandler::is_this_command_available
available(tool, privilege) == run(<<"command", "-v", tool>>, privilege)

\* WhichUser: the identity a command is run as
CurrentUser == [kind |-> "CurrentUser"]
PasswordLessUser(username) == [kind |-> "PasswordLessUser", username |-> username]
UsernamePassword(username, password) ==
    [kind |-> "UsernamePassword", username |-> username, password |-> password]

\* fault: the privilege is ignored for another user, sudo is always used
SudoForEveryUser(cmd, privilege, user) ==
    IF user.kind = "CurrentUser"
    THEN (IF privilege = "None" THEN <<>>
          ELSE IF privilege = "WithSudo" THEN <<"sudo">> ELSE <<"sudo-rs">>)
         \o cmd \o <<"2>&1">>
    ELSE IF user.kind = "PasswordLessUser"
    THEN <<"sudo", "-u", user.username>> \o cmd \o <<"2>&1">>
    ELSE <<"echo", user.password, "|", "sudo", "-S", "-u", user.username>>
         \o cmd \o <<"2>&1">>
\* final_command: the words of the command line handed to the shell
final_command(cmd, privilege, user) ==
    CASE user.kind = "CurrentUser" ->
            (CASE privilege = "None" -> cmd \o <<"2>&1">>
               [] privilege = "WithSudo" -> <<"sudo">> \o cmd \o <<"2>&1">>
               [] privilege = "WithSudoRs" -> <<"sudo-rs">> \o cmd \o <<"2>&1">>)
      [] user.kind = "PasswordLessUser" ->
            (CASE privilege \in {"None", "WithSudo"} ->
                    <<"sudo", "-u", user.username>> \o cmd \o <<"2>&1">>
               [] privilege = "WithSudoRs" ->
                    <<"sudo-rs", "-u", user.username>> \o cmd \o <<"2>&1">>)
      [] user.kind = "UsernamePassword" ->
            (CASE privilege \in {"None", "WithSudo"} ->
                    <<"echo", user.password, "|", "sudo", "-S", "-u", user.username>>
                        \o cmd \o <<"2>&1">>
               [] privilege = "WithSudoRs" ->
                    <<"echo", user.password, "|", "sudo-rs", "-S", "-u", user.username>>
                        \o cmd \o <<"2>&1">>)

RECURSIVE FormatDelete(_, _)
FormatDelete(nums, k) ==
    IF k > Len(nums) THEN <<>>
    ELSE <<ToString(nums[k]), "d">>
         \o (IF k < Len(nums) THEN <<";">> ELSE <<>>)
         \o FormatDelete(nums, k + 1)

SedInsertCmd(n, line, file) == <<"sed", "-i", "'", ToString(n), "i", line, "'", file>>
SedDeleteCmd(nums, file) == <<"sed", "-i", "'">> \o FormatDelete(nums, 1) \o <<"'", file>>
EchoAppendCmd(line, file) == <<"echo", "'", line, "'", ">>", file>>

Word(cmd, k) == IF k <= Len(cmd) THEN cmd[k] ELSE ""
NumberOf(word) ==
    IF \E k \in 0..(2 * MaxLines + 4) : ToString(k) = word
    THEN CHOOSE k \in 0..(2 * MaxLines + 4) : ToString(k) = word
    ELSE 0
ScriptNumbers(cmd) ==
    [k \in 1..(Len(cmd) - 5) |-> NumberOf(cmd[k + 3])]

\* The host after `cmd` has exited with code rc.  Only the package, service
\* and file commands below change the modelled facts; every other command
\* (the probes, the upgrades, a Command attribute's command) changes nothing.
Exec(h, cmd, rc) ==
    IF rc # 0 THEN h
    ELSE IF Word(cmd, 1) = "pacman" /\ Word(cmd, 3) = "-S" THEN [h EXCEPT !.pkg = TRUE]
    ELSE IF Word(cmd, 1) = "pacman" /\ Word(cmd, 3) = "-R" THEN [h EXCEPT !.pkg = FALSE]
    ELSE IF Word(cmd, 2) = "apt-get" /\ Word(cmd, 3) = "install"
    THEN [h EXCEPT !.pkg = TRUE, !.residual = FALSE]
    ELSE IF Word(cmd, 2) = "apt-get" /\ Word(cmd, 3) = "remove"
    THEN [h EXCEPT !.pkg = FALSE, !.residual = FALSE]
    ELSE IF Word(cmd, 1) \in {"dnf", "yum"} /\ Word(cmd, 2) = "install"
    THEN [h EXCEPT !.pkg = TRUE]
    ELSE IF Word(cmd, 1) \in {"dnf", "yum"} /\ Word(cmd, 2) = "remove"
    THEN [h EXCEPT !.pkg = FALSE]
    ELSE IF Word(cmd, 1) = "systemctl" /\ Word(cmd, 2) = "start"
    THEN [h EXCEPT !.svc.active = TRUE]
    ELSE IF Word(cmd, 1) = "systemctl" /\ Word(cmd, 2) = "stop"
    THEN [h EXCEPT !.svc.active = FALSE]
    ELSE IF Word(cmd, 1) = "systemctl" /\ Word(cmd, 2) = "enable"
    THEN [h EXCEPT !.svc.enabled = TRUE]
    ELSE IF Word(cmd, 1) = "systemctl" /\ Word(cmd, 2) = "disable"
    THEN [h EXCEPT !.svc.enabled = FALSE]
    ELSE IF Word(cmd, 1) = "echo" /\ Word(cmd, 5) = ">>"
    THEN [h EXCEPT !.file = Append(h.file, cmd[3])]
    ELSE IF Word(cmd, 1) = "sed" /\ Word(cmd, 5) = "i"
    THEN [h EXCEPT !.file = SedInsert(h.file, NumberOf(cmd[4]), cmd[6])]
    ELSE IF Word(cmd, 1) = "sed" /\ Word(cmd, 5) = "d"
    THEN [h EXCEPT !.file = SedDelete(h.file, ScriptNumbers(cmd), 1)]
    ELSE h

\* Exit code of a changing command: the code the environment picks, unless
\* the command cannot succeed on this host (tool, unit or file missing).
ExitCode(h, cmd, rc) ==
    IF Word(cmd, 1) \in {"pacman", "dnf", "yum"} /\ Word(cmd, 1) \notin h.tools THEN 127
    ELSE IF Word(cmd, 2) = "apt-get" /\ "apt-get" \notin h.tools THEN 127
    ELSE IF Word(cmd, 1) = "systemctl" /\ ("systemctl" \notin h.tools \/ ~h.svc.exists) THEN 5
    ELSE IF Word(cmd, 1) \in {"sed", "echo"} /\ ~h.isfile THEN 2
    ELSE rc

\* the host after a list of requests that all ran to completion
RECURSIVE RunAll(_, _, _)
RunAll(h, requests, k) ==
    IF k > Len(requests) THEN h
    ELSE RunAll(Exec(h, requests[k].cmd, 0), requests, k + 1)

\* ------------------------------------------------------------ result types
Compliant == [tag |-> "Compliant"]
NonCompliant(remediations) == [tag |-> "NonCompliant", remediations |-> remediations]
Err(e, msg) == [tag |-> "Err", err |-> e, msg |-> msg]
Panic == [tag |-> "Panic"]

RemNone(msg) == [kind |-> "None", msg |-> msg]
IsNoneRem(r) == r.kind = "None"

\* "If remediations are only None, it means a Match. If only one change is
\* not a None, return the whole list."
OnlyNone(remediations) ==
    \A k \in 1..Len(remediations) : IsNoneRem(remediations[k])
\* fault: the list is returned without looking for a concrete remediation
AlwaysList(remediations) == NonCompliant(remediations)
MatchOrList(remediations) ==
    IF OnlyNone(remediations) THEN Compliant ELSE NonCompliant(remediations)

\* ------------------------------------------------- attribute descriptors
\* Option fields hold "None" when unset.
PackageKinds == {"Apt", "YumDnf", "Pacman"}
Privileges == {"None", "WithSudo", "WithSudoRs"}
PackageAttr(kind, state, package, upgrade, privilege) ==
    [kind |-> kind, state |-> state, package |-> package, upgrade |-> upgrade,
     privilege |-> privilege]
ServiceAttr(current_status, auto_start, exists, privilege) ==
    [kind |-> "Service", name |-> ServiceName, current_status |-> current_status,
     auto_start |-> auto_start, exists |-> exists, privilege |-> privilege]
LineInFileAttr(line, state, position, n, privilege) ==
    [kind |-> "LineInFile", filepath |-> FilePath, line |-> line, state |-> state,
     position |-> position, n |-> n, privilege |-> privilege]
CommandAttr(cmd, privilege) == [kind |-> "Command", cmd |-> cmd, privilege |-> privilege]
DebugAttr(msg) == [kind |-> "Debug", msg |-> msg, privilege |-> "None"]
PingAttr(privilege) == [kind |-> "Ping", privilege |-> privilege]

\* --------------------------------------------------------------- packages
is_package_installed(h) == RcPackageQuery(h) = 0

\* the state sub-goal first, then the upgrade sub-goal
PackageRemediations(kind, mgr, attr, h) ==
    LET call(c) == [kind |-> kind, api_call |-> c, package_manager |-> mgr,
                    package |-> IF c = "Upgrade" THEN "None" ELSE attr.package,
                    privilege |-> attr.privilege]
        stateRem ==
            IF attr.state = "None" THEN <<>>
            ELSE IF attr.state = "Present"
            THEN IF is_package_installed(h)
                 THEN <<RemNone("already present")>>
                 ELSE <<call("Install")>>
            ELSE IF is_package_installed(h)
                 THEN <<call("Remove")>>
                 ELSE <<RemNone("already absent")>>
        upgradeRem ==
            IF attr.upgrade = "True" THEN <<call("Upgrade")>> ELSE <<>>
    IN  stateRem \o upgradeRem

\* self.package.clone().unwrap() aborts when state is set without a package
PackageBody(kind, mgr, attr, h) ==
    IF attr.state # "None" /\ attr.package = "None" THEN Panic
    ELSE MatchOrList(PackageRemediations(kind, mgr, attr, h))

PacmanAssess(attr, h, up) ==
    IF ~up THEN Panic
    ELSE IF "pacman" \notin h.tools
    THEN Err("FailedDryRunEvaluation", "Pacman not working on this host")
    ELSE PackageBody("Pacman", "pacman", attr, h)

AptAssess(attr, h, up) ==
    IF ~up THEN Panic
    ELSE IF "apt-get" \notin h.tools \/ "dpkg" \notin h.tools
    THEN Err("FailedDryRunEvaluation", "APT not working on this host")
    ELSE PackageBody("Apt", "apt-get", attr, h)

YumDnfAssess(attr, h, up) ==
    IF ~up THEN Panic
    ELSE IF "dnf" \in h.tools THEN PackageBody("YumDnf", "dnf", attr, h)
    ELSE IF "yum" \in h.tools THEN PackageBody("YumDnf", "yum", attr, h)
    ELSE Err("FailedDryRunEvaluation", "Neither YUM nor DNF work on this host")

\* ---------------------------------------------------------------- service
\* Result<bool, String>: [ok |-> TRUE, val |-> b] or [ok |-> FALSE]
service_is_active(h, must_exists) ==
    LET rc == RcIsActive(h)
    IN  IF rc = 0 THEN [ok |-> TRUE, val |-> TRUE]
        ELSE IF rc = 1 THEN [ok |-> FALSE, val |-> FALSE]
        ELSE IF rc = 3 THEN [ok |-> TRUE, val |-> FALSE]
        ELSE IF rc = 4 THEN [ok |-> ~must_exists, val |-> FALSE]
        ELSE [ok |-> FALSE, val |-> FALSE]

\* fault: exit code 3 of is-enabled is read as "disabled"
IsEnabledWithThree(h, must_exists) ==
    LET rc == RcIsEnabled(h)
    IN  IF rc = 0 THEN [ok |-> TRUE, val |-> TRUE]
        ELSE IF rc \in {1, 3} THEN [ok |-> TRUE, val |-> FALSE]
        ELSE IF rc = 4 THEN [ok |-> ~must_exists, val |-> FALSE]
        ELSE [ok |-> FALSE, val |-> FALSE]
service_is_enabled(h, must_exists) ==
    LET rc == RcIsEnabled(h)
    IN  IF rc = 0 THEN [ok |-> TRUE, val |-> TRUE]
        ELSE IF rc = 1 THEN [ok |-> TRUE, val |-> FALSE]
        ELSE IF rc = 4 THEN [ok |-> ~must_exists, val |-> FALSE]
        ELSE [ok |-> FALSE, val |-> FALSE]

\* fault: the auto_start sub-goal is looked at before the status sub-goal
AutoStartFirst(attr, is_active, is_enabled) ==
    LET call(c) == [kind |-> "Service", api_call |-> c, name |-> attr.name,
                    privilege |-> attr.privilege]
    IN  (IF attr.auto_start = "None" THEN <<>>
         ELSE IF (attr.auto_start = "Enabled") = is_enabled
         THEN <<RemNone("auto_start already as expected")>>
         ELSE <<call(IF is_enabled THEN "Disable" ELSE "Enable")>>)
        \o (IF attr.current_status = "None" THEN <<>>
            ELSE IF (attr.current_status = "Active") = is_active
            THEN <<RemNone("status already as expected")>>
            ELSE <<call(IF is_active THEN "Stop" ELSE "Start")>>)
\* Start|Stop (or its None) first, then Enable|Disable (or its None)
ServiceRemediations(attr, is_active, is_enabled) ==
    LET call(c) == [kind |-> "Service", api_call |-> c, name |-> attr.name,
                    privilege |-> attr.privilege]
        statusRem ==
            IF attr.current_status = "Active"
            THEN IF is_active THEN <<RemNone("already Active")>> ELSE <<call("Start")>>
            ELSE IF attr.current_status = "Inactive"
            THEN IF is_active THEN <<call("Stop")>> ELSE <<RemNone("already Inactive")>>
            ELSE <<>>
        autoRem ==
            IF attr.auto_start = "Enabled"
            THEN IF is_enabled THEN <<RemNone("already enabled")>> ELSE <<call("Enable")>>
            ELSE IF attr.auto_start = "Disabled"
            THEN IF is_enabled THEN <<call("Disable")>> ELSE <<RemNone("already disabled")>>
            ELSE <<>>
    IN  statusRem \o autoRem

ServiceAssess(attr, h, up) ==
    LET must_exists == attr.exists # "False"
        act == service_is_active(h, must_exists)
        ena == service_is_enabled(h, must_exists)
    IN  IF ~up THEN Panic
        ELSE IF "systemctl" \notin h.tools
        THEN Err("FailedDryRunEvaluation", "SYSTEMCTL not available on this host")
        ELSE IF ~act.ok THEN Err("FailedDryRunEvaluation", "service status")
        ELSE IF ~ena.ok THEN Err("FailedDryRunEvaluation", "service status")
        ELSE IF attr.current_status = "None" /\ attr.auto_start = "None"
        THEN Err("FailedDryRunEvaluation", "STATE and ENABLED fields are both empty")
        ELSE IF attr.exists = "False"
        THEN IF attr.current_status = "Active"
             THEN Err("IncoherentExpectedState", "both active and non-existing")
             ELSE IF attr.auto_start = "Enabled"
             THEN Err("IncoherentExpectedState", "both enabled and non-existing")
             ELSE MatchOrList(<<>>)
        ELSE MatchOrList(ServiceRemediations(attr, act.val, ena.val))

\* ------------------------------------------------------------- lineinfile
\* Option<Vec<u64>>: Some(line numbers) when grep exits 0, else None
is_line_present(h, line) ==
    LET nums == GrepN(h.file, line, 1)
    IN  [some |-> nums # <<>>, nums |-> nums]

\* fault: any occurrence counts as an occurrence at the line asked for
ContainsAny(nums, n) == Len(nums) # 0
Contains(nums, n) == \E k \in 1..Len(nums) : nums[k] = n

LineAdd(position, n, attr) ==
    [kind |-> "LineInFile", api_call |-> "Add", position |-> position, n |-> n,
     line_numbers |-> <<>>, line_content |-> attr.line,
     file_path |-> attr.filepath, privilege |-> attr.privilege]
LineDelete(nums, attr) ==
    [kind |-> "LineInFile", api_call |-> "Delete", position |-> "None", n |-> 0,
     line_numbers |-> nums, line_content |-> attr.line,
     file_path |-> attr.filepath, privilege |-> attr.privilege]

LinePresentRemediation(attr, h) ==
    LET filenumberoflines == WcL(h)
        found == is_line_present(h, attr.line)
        inPlace == RemNone("Line already present at expected place")
    IN  IF found.some
        THEN IF attr.position = "Top"
             THEN IF Contains(found.nums, 1) THEN inPlace ELSE LineAdd("Top", 0, attr)
             ELSE IF attr.position = "Bottom"
             THEN IF Contains(found.nums, filenumberoflines)
                  THEN inPlace ELSE LineAdd("Bottom", 0, attr)
             ELSE IF attr.position = "N"
             THEN IF Contains(found.nums, attr.n) THEN inPlace ELSE LineAdd("N", attr.n, attr)
             ELSE IF attr.position = "Anywhere"
             THEN IF Len(found.nums) # 0
                  THEN RemNone("Line already present in the file")
                  ELSE LineAdd("Bottom", 0, attr)
             ELSE RemNone("Line already present")
        ELSE IF attr.position = "None" THEN LineAdd("Bottom", 0, attr)
             ELSE LineAdd(attr.position, attr.n, attr)

LineAbsentRemediation(attr, h) ==
    LET found == is_line_present(h, attr.line)
    IN  IF found.some THEN LineDelete(found.nums, attr)
        ELSE RemNone("Line already absent")

\* fault: the position is not compared with the line count
UncheckedPosition(attr, h, up) ==
    IF ~up THEN Panic
    ELSE IF "sed" \notin h.tools
    THEN Err("FailedDryRunEvaluation", "Sed command not available on this host")
    ELSE IF RcTestF(h) # 0
    THEN Err("FailedDryRunEvaluation", "not found or not a regular file")
    ELSE IF attr.line = "None" THEN Panic
    ELSE LET remediation == IF attr.state = "Present"
                            THEN LinePresentRemediation(attr, h)
                            ELSE LineAbsentRemediation(attr, h)
         IN  IF IsNoneRem(remediation) THEN Compliant
             ELSE NonCompliant(<<remediation>>)
LineInFileAssess(attr, h, up) ==
    IF ~up THEN Panic
    ELSE IF "sed" \notin h.tools
    THEN Err("FailedDryRunEvaluation", "Sed command not available on this host")
    ELSE IF RcTestF(h) # 0
    THEN Err("FailedDryRunEvaluation", "not found or not a regular file")
    ELSE IF attr.state = "Present" /\ attr.position = "N" /\ attr.n > WcL(h)
    THEN Err("FailedDryRunEvaluation", "Position value out of range")
    ELSE IF attr.line = "None" THEN Panic
    ELSE LET remediation == IF attr.state = "Present"
                            THEN LinePresentRemediation(attr, h)
                            ELSE LineAbsentRemediation(attr, h)
         IN  IF IsNoneRem(remediation) THEN Compliant
             ELSE NonCompliant(<<remediation>>)

\* ------------------------------------------------- command / debug / ping
CommandAssess(attr, h, up) ==
    NonCompliant(<<[kind |-> "Command", cmd |-> attr.cmd, privilege |-> attr.privilege]>>)

\* fault: the message is handed over as a command to run
DebugAsCommand(attr, h, up) ==
    NonCompliant(<<[kind |-> "Command", cmd |-> <<attr.msg>>, privilege |-> attr.privilege]>>)
DebugAssess(attr, h, up) == NonCompliant(<<RemNone(attr.msg)>>)

PingAssess(attr, h, up) ==
    IF ~up THEN Err("FailureToRunCommand", "id")
    ELSE Compliant

\* ----------------------------------------- what an assessment asks the host
\* The run_command requests assess issues, in order, given the host's answers.
\* A handler that cannot run commands fails the first request.
\* fault: the installed-package query is an install
InstallAsQuery(kind, mgr, package) == <<"pacman", "--noconfirm", "-S", package>>
\* the command is_package_installed runs
PackageQuery(kind, mgr, package) ==
    CASE kind = "Pacman" -> <<"LC_ALL=en_US.UTF-8", "pacman", "-Q", "-i", package>>
      [] kind = "Apt" -> <<"dpkg", "-s", package>>
      [] kind = "YumDnf" -> <<mgr, "list", "installed", package>>

PackageProbes(kind, mgr, attr, privilege) ==
    IF attr.state = "None" \/ attr.package = "None" THEN <<>>
    ELSE <<run(PackageQuery(kind, mgr, attr.package), privilege)>>

PacmanProbes(attr, h, up) ==
    <<available("pacman", "None")>>
    \o (IF up /\ "pacman" \in h.tools
        THEN PackageProbes("Pacman", "pacman", attr, "None") ELSE <<>>)

AptProbes(attr, h, up) ==
    <<available("apt-get", "None")>>
    \o (IF up /\ "apt-get" \in h.tools THEN <<available("dpkg", "None")>> ELSE <<>>)
    \o (IF up /\ "apt-get" \in h.tools /\ "dpkg" \in h.tools
        THEN PackageProbes("Apt", "apt-get", attr, "None") ELSE <<>>)

YumDnfProbes(attr, h, up) ==
    <<available("dnf", "None")>>
    \o (IF up /\ "dnf" \notin h.tools THEN <<available("yum", "None")>> ELSE <<>>)
    \o (IF up /\ "dnf" \in h.tools
        THEN PackageProbes("YumDnf", "dnf", attr, attr.privilege)
        ELSE IF up /\ "yum" \in h.tools
        THEN PackageProbes("YumDnf", "yum", attr, attr.privilege)
        ELSE <<>>)

ServiceProbes(attr, h, up) ==
    <<available("systemctl", attr.privilege)>>
    \o (IF up /\ "systemctl" \in h.tools
        THEN <<run(<<"systemctl", "is-active", attr.name>>, "None")>>
             \o (IF service_is_active(h, attr.exists # "False").ok
                 THEN <<run(<<"systemctl", "is-enabled", attr.name>>, "None")>>
                 ELSE <<>>)
        ELSE <<>>)

LineInFileProbes(attr, h, up) ==
    LET count == run(<<"wc", "-l", attr.filepath, "|", "cut", "-f", "1", "-d", "' '">>,
                     attr.privilege)
        grep == run(<<"grep", "-n", "-F", "-w", "'", attr.line, "'", attr.filepath>>,
                    attr.privilege)
        inRange == ~(attr.position = "N" /\ attr.n > WcL(h))
    IN  <<available("sed", attr.privilege)>>
        \o (IF up /\ "sed" \in h.tools
            THEN <<run(<<"test", "-f", attr.filepath>>, attr.privilege)>>
                 \o (IF RcTestF(h) # 0 THEN <<>>
                     ELSE IF attr.state = "Present"
                     THEN <<count>>
                          \o (IF inRange /\ attr.line # "None" THEN <<grep>> ELSE <<>>)
                     ELSE IF attr.line # "None" THEN <<grep>> ELSE <<>>)
            ELSE <<>>)

Probes(attr, h, up) ==
    CASE attr.kind = "Apt" -> AptProbes(attr, h, up)
      [] attr.kind = "YumDnf" -> YumDnfProbes(attr, h, up)
      [] attr.kind = "Pacman" -> PacmanProbes(attr, h, up)
      [] attr.kind = "LineInFile" -> LineInFileProbes(attr, h, up)
      [] attr.kind = "Service" -> ServiceProbes(attr, h, up)
      [] attr.kind = "Ping" -> <<run(<<"id">>, attr.privilege)>>
      [] attr.kind \in {"Debug", "Command"} -> <<>>

\* the host once assess has returned: every request that ran has had its effect
HostAfterAssess(attr, h, up) ==
    IF up THEN RunAll(h, Probes(attr, h, up), 1) ELSE h

\* AttributeDetail::assess
Assess(attr, h, up) ==
    CASE attr.kind = "Apt" -> AptAssess(attr, h, up)
      [] attr.kind = "YumDnf" -> YumDnfAssess(attr, h, up)
      [] attr.kind = "Pacman" -> PacmanAssess(attr, h, up)
      [] attr.kind = "LineInFile" -> LineInFileAssess(attr, h, up)
      [] attr.kind = "Debug" -> DebugAssess(attr, h, up)
      [] attr.kind = "Ping" -> PingAssess(attr, h, up)
      [] attr.kind = "Service" -> ServiceAssess(attr, h, up)
      [] attr.kind = "Command" -> CommandAssess(attr, h, up)

\* ------------------------------------------------------------ remediation
\* ApiCall::call.  rc is the exit code the environment picks for the command.
Called(outcome, h) == [tag |-> "Called", outcome |-> outcome, host |-> h]
\* fault: a call reports Success whatever the exit code
AlwaysSuccess(code) == "Success"
\* if cmd_result.return_code == 0 { Success } else { Failure(..) }
OutcomeOf(code) == IF code = 0 THEN "Success" ELSE "Failure"

PackageCommand(rem) ==
    CASE rem.kind = "Pacman" /\ rem.api_call = "Install" ->
            <<"pacman", "--noconfirm", "-S", rem.package>>
      [] rem.kind = "Pacman" /\ rem.api_call = "Remove" ->
            <<"pacman", "--noconfirm", "-R", rem.package>>
      [] rem.kind = "Pacman" /\ rem.api_call = "Upgrade" -> <<"pacman", "-Syu">>
      [] rem.kind = "Apt" /\ rem.api_call = "Install" ->
            <<"DEBIAN_FRONTEND=noninteractive", "apt-get", "install", "-y", rem.package>>
      [] rem.kind = "Apt" /\ rem.api_call = "Remove" ->
            <<"DEBIAN_FRONTEND=noninteractive", "apt-get", "remove", "--purge", "-y",
              rem.package>>
      [] rem.kind = "Apt" /\ rem.api_call = "Upgrade" ->
            <<"apt-get", "update", "&&", "DEBIAN_FRONTEND=noninteractive", "apt-get",
              "upgrade", "-y">>
      [] rem.kind = "YumDnf" /\ rem.api_call = "Install" ->
            <<rem.package_manager, "install", "-y", rem.package>>
      [] rem.kind = "YumDnf" /\ rem.api_call = "Remove" ->
            <<rem.package_manager, "remove", "-y", rem.package>>
      [] rem.kind = "YumDnf" /\ rem.api_call = "Upgrade" ->
            <<rem.package_manager, "update", "-y", "--refresh">>

ServiceCommand(rem) ==
    CASE rem.api_call = "Start" -> <<"systemctl", "start", rem.name>>
      [] rem.api_call = "Stop" -> <<"systemctl", "stop", rem.name>>
      [] rem.api_call = "Enable" -> <<"systemctl", "enable", rem.name>>
      [] rem.api_call = "Disable" -> <<"systemctl", "disable", rem.name>>

\* the changing command of a lineinfile call; <<>> when the call runs none
LineInFileCommand(rem, filenumberoflines) ==
    IF rem.api_call = "Add"
    THEN IF filenumberoflines = 0
         THEN IF rem.position = "N" /\ rem.n # 1 THEN <<>>
              ELSE EchoAppendCmd(rem.line_content, rem.file_path)
         ELSE LET future_line_number ==
                      IF rem.position = "Top" THEN 1
                      ELSE IF rem.position \in {"Bottom", "Anywhere"}
                      THEN filenumberoflines
                      ELSE rem.n
              IN  SedInsertCmd(future_line_number, rem.line_content, rem.file_path)
    ELSE SedDeleteCmd(rem.line_numbers, rem.file_path)

\* the run_command requests a call issues, in order
CallCommands(rem, h, up) ==
    CASE rem.kind \in PackageKinds -> <<run(PackageCommand(rem), rem.privilege)>>
      [] rem.kind = "Service" -> <<run(ServiceCommand(rem), rem.privilege)>>
      [] rem.kind = "Command" -> <<run(rem.cmd, rem.privilege)>>
      [] rem.kind = "LineInFile" ->
            LET count == run(<<"wc", "-l", rem.file_path, "|", "cut", "-f", "1", "-d", "' '">>,
                             rem.privilege)
                change == LineInFileCommand(rem, WcL(h))
            IN  IF rem.api_call = "Add"
                THEN <<count>>
                     \o (IF up /\ change # <<>> THEN <<run(change, rem.privilege)>> ELSE <<>>)
                ELSE <<run(change, rem.privilege)>>
      [] rem.kind \in {"None", "Debug", "Ping"} -> <<>>

\* fault: the command's effect is not on the host later requests are sent to
RunElsewhere(cmd, h, up, rc) ==
    IF ~up THEN Panic ELSE Called(OutcomeOf(ExitCode(h, cmd, rc)), h)
\* run the one changing command of a call and classify its exit code
RunAndClassify(cmd, h, up, rc) ==
    LET code == ExitCode(h, cmd, rc)
    IN  IF ~up THEN Panic ELSE Called(OutcomeOf(code), Exec(h, cmd, code))

PackageCall(rem, h, up, rc) == RunAndClassify(PackageCommand(rem), h, up, rc)

ServiceCall(rem, h, up, rc) == RunAndClassify(ServiceCommand(rem), h, up, rc)

CommandCall(rem, h, up, rc) == RunAndClassify(rem.cmd, h, up, rc)

LineInFileCall(rem, h, up, rc) ==
    LET cmd == LineInFileCommand(rem, WcL(h))
    IN  IF ~up THEN Panic
        ELSE IF cmd = <<>>
        THEN Called("Failure", h)
        ELSE RunAndClassify(cmd, h, up, rc)

\* Remediation::reach_compliance
RemediationReach(rem, h, up, rc) ==
    CASE rem.kind = "None" -> Err("InternalLogicError", "Unexpected remediation")
      [] rem.kind \in PackageKinds -> PackageCall(rem, h, up, rc)
      [] rem.kind = "LineInFile" -> LineInFileCall(rem, h, up, rc)
      [] rem.kind = "Service" -> ServiceCall(rem, h, up, rc)
      [] rem.kind = "Command" -> CommandCall(rem, h, up, rc)
      [] rem.kind \in {"Debug", "Ping"} -> Called("Success", h)

\* ------------------------------------------------------------ input space
Catalog ==
    { PackageAttr("Pacman", "Present", PackageName, "None", "WithSudo"),
      PackageAttr("Pacman", "Present", PackageName, "True", "WithSudo"),
      PackageAttr("YumDnf", "Absent", PackageName, "None", "WithSudo"),
      ServiceAttr("Active", "Enabled", "None", "WithSudo"),
      ServiceAttr("Inactive", "None", "False", "WithSudo"),
      LineInFileAttr(TheLine, "Present", "Top", 0, "WithSudo"),
      LineInFileAttr(TheLine, "Present", "Bottom", 0, "WithSudo"),
      LineInFileAttr(TheLine, "Absent", "None", 0, "WithSudo"),
      CommandAttr(<<"cmd">>, "None"), DebugAttr("msg"), PingAttr("None") }

ExpectedStates == SeqsUpTo(Catalog, MaxAttrs)

Uses(e, kinds) == \E k \in 1..Len(e) : e[k].kind \in kinds

\* The facts no attribute of the ExpectedState probes are left at a default.
Hosts(e) ==
    { [tools |-> t, pkg |-> p[1], residual |-> p[2], svc |-> s, isfile |-> f.isfile,
       file |-> f.file] :
        t \in {AllTools, BareTools},
        p \in {<<FALSE, FALSE>>}
              \cup (IF Uses(e, PackageKinds) THEN {<<TRUE, FALSE>>} ELSE {})
              \cup (IF Uses(e, {"Apt"}) THEN {<<FALSE, TRUE>>} ELSE {}),
        s \in IF Uses(e, {"Service"}) THEN ServiceStates
              ELSE {[exists |-> FALSE, active |-> FALSE, enabled |-> FALSE, odd |-> 0]},
        f \in IF Uses(e, {"LineInFile"})
              THEN {[isfile |-> FALSE, file |-> <<>>]}
                   \cup {[isfile |-> TRUE, file |-> l] :
                            l \in SeqsUpTo({TheLine, OtherLine}, MaxLines)}
              ELSE {[isfile |-> TRUE, file |-> <<>>]} }

\* ------------------------------------------------------------------ state
VARIABLES
    es,          \* the ExpectedState handed to every operation
    host,        \* the managed host
    connected,   \* handler.is_connected()
    up,          \* the handler can run commands on the host (transport works)
    op,          \* operation in progress: "idle", "assess", "parallel", "reach"
    pc,          \* position inside the operation
    i,           \* index of the attribute the loop is at
    j,           \* index of the remediation the inner loop is at
    remediations,                \* list being remedied (reach_compliance)
    attribute_results,           \* (remediation, outcome) pairs of attribute i
    acc,         \* actions_taken / attributes_compliance_assessment
    flags,       \* final_host_status, reaching_compliance_failed, already_compliant
    workers,     \* parallel assessment: state of each spawned worker
    channel,     \* parallel assessment: messages sent and not yet received
    trace,       \* handler-level events of the operation in progress
    before,      \* the host when the operation in progress started
    done,        \* completed operations, oldest first
    endpoint,    \* Ssh2 handler: the endpoint handed to connect
    auth,        \* Ssh2 handler: its Ssh2AuthMethod
    session,     \* Ssh2 handler: its SSH session
    call         \* a function of the command layer: its arguments and its value

hostvars == <<es, host, connected, up, op, pc, i, j, remediations, attribute_results,
              acc, flags, workers, channel, trace, before>>
sshvars == <<endpoint, auth, session>>
vars == <<hostvars, done, sshvars, call>>

\* fault: already_compliant starts false
StartsNonCompliant == [final_host_status |-> "AlreadyCompliant",
                       reaching_compliance_failed |-> FALSE,
                       already_compliant |-> FALSE]
NoFlags == [final_host_status |-> "AlreadyCompliant",
            reaching_compliance_failed |-> FALSE,
            already_compliant |-> TRUE]

\* Session::new(): no TCP stream, no handshake, no authentication yet
NewSession == [tcp |-> 0, handshakes |-> 0, auths |-> 0, authenticated |-> FALSE]
NoCall == [f |-> "none"]
\* the variables of the handler layer, in a specification that leaves them alone
HandlerUnused ==
    /\ endpoint = "host"
    /\ auth = "KeyFile"
    /\ session = NewSession
    /\ call = NoCall

Init ==
    /\ es \in ExpectedStates
    /\ host \in Hosts(es)
    /\ connected \in BOOLEAN
    /\ up \in BOOLEAN
    /\ op = "idle"
    /\ pc = "none"
    /\ i = 0
    /\ j = 0
    /\ remediations = <<>>
    /\ attribute_results = <<>>
    /\ acc = <<>>
    /\ flags = NoFlags
    /\ workers = <<>>
    /\ channel = <<>>
    /\ trace = <<>>
    /\ before = host
    /\ done = <<>>
    /\ HandlerUnused

Ok(status, list) == [tag |-> "Ok", status |-> status, list |-> list]
Aborted == done # <<>> /\ done[Len(done)].result.tag = "Panic"
CanStart == op = "idle" /\ Len(done) < MaxOps /\ ~Aborted

\* The operation returns `result` (or aborts, when result is Panic).
Finish(kind, result, hostAfter, events) ==
    /\ done' = Append(done, [op |-> kind, result |-> result, before |-> before,
                             after |-> hostAfter, trace |-> events])
    /\ host' = hostAfter
    /\ op' = "idle"
    /\ pc' = "none"
    /\ i' = 0
    /\ j' = 0
    /\ remediations' = <<>>
    /\ attribute_results' = <<>>
    /\ acc' = <<>>
    /\ flags' = NoFlags
    /\ workers' = <<>>
    /\ channel' = <<>>
    /\ trace' = <<>>
    /\ before' = hostAfter
    /\ UNCHANGED <<sshvars, call, es, connected, up>>

Begin(kind, firstpc) ==
    /\ op' = kind
    /\ pc' = firstpc
    /\ i' = 1
    /\ before' = host
    /\ UNCHANGED <<sshvars, call, es, host, connected, up, j, remediations, attribute_results,
                   acc, flags, channel, trace, done>>

NotConnected == Err("NotConnectedToHost", "")
\* fault: the handler is taken to be connected
AlwaysConnected(handler_connected) == TRUE
\* ManagedHost::is_connected
is_connected(handler_connected) == handler_connected

\* what the handler saw: one event per Attribute::assess and per
\* Remediation::reach_compliance, with the run_command requests it issued
AssessEvent(k, attr, h, u) ==
    [ev |-> "assess", i |-> k, j |-> 0, result |-> Assess(attr, h, u).tag,
     assessment |-> Assess(attr, h, u), host |-> h, requests |-> Probes(attr, h, u)]
CallEvent(k, l, rem, c, h, u) ==
    [ev |-> "call", i |-> k, j |-> l, remediation |-> rem,
     result |-> IF c.tag = "Called" THEN c.outcome ELSE c.tag,
     requests |-> CallCommands(rem, h, u)]

\* ------------------------------------------- ManagedHost::assess_compliance
\* fault: the newest entry goes to the front of the list
PushFront(list, attribute, assessment) ==
    <<[attribute |-> attribute, assessment |-> assessment]>> \o list
\* attributes_compliance_assessment.push((attribute.clone(), attribute_compliance))
PushAssessment(list, attribute, assessment) ==
    Append(list, [attribute |-> attribute, assessment |-> assessment])

\* fault: the status ignores the already_compliant flag
AlwaysAlreadyCompliant(already_compliant, list) == Ok("AlreadyCompliant", list)
\* the Ok value built once the loop has ended
HostAssessment(already_compliant, list) ==
    Ok(IF already_compliant THEN "AlreadyCompliant" ELSE "NonCompliant", list)

AssessStart ==
    /\ CanStart
    /\ IF ~is_connected(connected)
       THEN Finish("assess", NotConnected, host, <<>>)
       ELSE Begin("assess", "loop") /\ UNCHANGED workers

AssessStep ==
    /\ op = "assess" /\ pc = "loop" /\ i <= Len(es)
    /\ LET r == Assess(es[i], host, up)
           events == Append(trace, AssessEvent(i, es[i], host, up))
           probed == HostAfterAssess(es[i], host, up)
       IN  IF r.tag \in {"Err", "Panic"}
           THEN Finish("assess", r, probed, events)
           ELSE /\ acc' = PushAssessment(acc, es[i], r)
                /\ host' = probed
                /\ flags' = IF r.tag = "NonCompliant"
                            THEN [flags EXCEPT !.already_compliant = FALSE]
                            ELSE flags
                /\ i' = i + 1
                /\ trace' = events
                /\ UNCHANGED <<sshvars, call, es, connected, up, op, pc, j, remediations,
                               attribute_results, workers, channel, before, done>>

AssessReturn ==
    /\ op = "assess" /\ pc = "loop" /\ i > Len(es)
    /\ Finish("assess", HostAssessment(flags.already_compliant, acc), host, trace)

\* ------------------------------- ManagedHost::assess_compliance_in_parallel
\* One worker per attribute, each assessing through its clone of the handler
\* and sending (attribute, result) on the channel; a worker that aborts inside
\* assess sends nothing.
ParallelStart ==
    /\ CanStart
    /\ IF ~is_connected(connected)
       THEN Finish("parallel", NotConnected, host, <<>>)
       ELSE /\ Begin("parallel", "recv")
            /\ workers' = [w \in 1..Len(es) |-> "running"]

\* Ssh2HostHandler { auth, session }: `session` is a handle on an SSH session,
\* named here by the session's number
Ssh2HostHandler == [auth |-> "KeyFile", session |-> 1]
\* #[derive(Clone)]: the clone holds a clone of each field, and the clone of
\* a session handle is a handle on the same session
CloneHandler(handler) == [auth |-> handler.auth, session |-> handler.session]
\* let mut host_handler = self.handler.clone(), the handler of the w-th worker
WorkerHandler(w) == CloneHandler(Ssh2HostHandler)

\* fault: every worker is handed the first attribute
FirstAttribute(e, w) == e[1]
\* let attribute_clone = attribute.clone(), the w-th turn of the spawning loop
WorkerAttribute(e, w) == e[w]

WorkerAssess(w) ==
    /\ op = "parallel"
    /\ w \in DOMAIN workers
    /\ workers[w] = "running"
    /\ LET attribute_clone == WorkerAttribute(es, w)
           r == Assess(attribute_clone, host, up)
       IN  /\ workers' = [workers EXCEPT ![w] = IF r.tag = "Panic" THEN "dead" ELSE "sent"]
           /\ channel' = IF r.tag = "Panic" THEN channel
                         ELSE Append(channel, [attribute |-> attribute_clone, result |-> r])
           /\ trace' = Append(trace, AssessEvent(w, attribute_clone, host, up))
           /\ host' = HostAfterAssess(attribute_clone, host, up)
    /\ UNCHANGED <<sshvars, call, es, connected, up, op, pc, i, j, remediations,
                   attribute_results, acc, flags, before, done>>

\* fault: a worker's error is taken for an assessment
NeverWorkerError(result) == FALSE
\* the arm `Err(error_detail) => return Err(error_detail)` of the received result
IsWorkerError(result) == result.tag = "Err"

\* the Sender handles alive: the parent's `sender`, which lives until the
\* function returns, and the clone each running worker holds
Senders ==
    (IF op = "parallel" THEN {0} ELSE {})
        \cup {w \in DOMAIN workers : workers[w] = "running"}

\* receiver.recv(): returns the oldest message; on an empty channel it blocks
\* while a Sender is alive and fails once none is.
ParallelRecv ==
    /\ op = "parallel" /\ pc = "recv" /\ i <= Len(es)
    /\ IF channel = <<>>
       THEN /\ Senders = {}
            /\ Finish("parallel",
                      Err("FailedDryRunEvaluation", "receiving on a closed channel"),
                      host, trace)
       ELSE LET m == Head(channel)
            IN  IF IsWorkerError(m.result)
                THEN Finish("parallel", m.result, host, trace)
                ELSE /\ acc' = PushAssessment(acc, m.attribute, m.result)
                     /\ flags' = IF m.result.tag = "NonCompliant"
                                 THEN [flags EXCEPT !.already_compliant = FALSE]
                                 ELSE flags
                     /\ i' = i + 1
                     /\ channel' = Tail(channel)
                     /\ UNCHANGED <<sshvars, call, es, host, connected, up, op, pc, j, remediations,
                                    attribute_results, workers, trace, before, done>>

ParallelReturn ==
    /\ op = "parallel" /\ pc = "recv" /\ i > Len(es)
    /\ Finish("parallel", HostAssessment(flags.already_compliant, acc), host, trace)

\* -------------------------------------------- ManagedHost::reach_compliance
AttributeResult(attribute, status, details) ==
    [attribute |-> attribute, status |-> status, details |-> details]
NoDetails == [some |-> FALSE, list |-> <<>>]
\* fault: the (remediation, outcome) pairs are dropped
DroppedDetails(list) == NoDetails
SomeDetails(list) == [some |-> TRUE, list |-> list]

\* fault: a compliant attribute is reported as remedied
CompliantAsReached(attribute) == AttributeResult(attribute, "ReachedCompliance", NoDetails)
\* "Nothing to do except save this step in the final result"
CompliantResult(attribute) == AttributeResult(attribute, "AlreadyCompliant", NoDetails)

\* fault: a Failure outcome goes unnoticed
NeverFailure(outcome) == FALSE
\* if let InternalApiCallOutcome::Failure(_details) = internal_api_call_outcome
IsFailure(outcome) == outcome = "Failure"

\* fault: the loop stays on the remediation it has just run
SameRemediation(l) == l
\* the `for remediation in remediations` loop moves to the next entry
NextRemediation(l) == l + 1

\* fault: a failed attribute is reported as remedied
AlwaysReached(reaching_compliance_failed) == "ReachedCompliance"
\* the attribute's entry and the host status once its remediation loop has ended
StatusAfter(reaching_compliance_failed) ==
    IF reaching_compliance_failed THEN "FailedReachedCompliance" ELSE "ReachedCompliance"
\* fault: every remedied attribute is saved as failed
RemediedAsFailed(attribute, reaching_compliance_failed, results) ==
    AttributeResult(attribute, "FailedReachedCompliance", SomeDetails(results))
RemediedResult(attribute, reaching_compliance_failed, results) ==
    AttributeResult(attribute, StatusAfter(reaching_compliance_failed), SomeDetails(results))

ReachStart ==
    /\ CanStart
    /\ IF ~is_connected(connected)
       THEN Finish("reach", NotConnected, host, <<>>)
       ELSE Begin("reach", "loop") /\ UNCHANGED workers

\* attribute.assess(&mut self.handler) at the head of the outer loop
ReachAssess ==
    /\ op = "reach" /\ pc = "loop" /\ i <= Len(es)
    /\ LET r == Assess(es[i], host, up)
           events == Append(trace, AssessEvent(i, es[i], host, up))
           probed == HostAfterAssess(es[i], host, up)
       IN  CASE r.tag \in {"Err", "Panic"} -> Finish("reach", r, probed, events)
             [] r.tag = "Compliant" ->
                  /\ acc' = Append(acc, CompliantResult(es[i]))
                  /\ i' = i + 1
                  /\ trace' = events
                  /\ host' = probed
                  /\ UNCHANGED <<sshvars, call, es, connected, up, op, pc, j, remediations,
                                 attribute_results, flags, workers, channel,
                                 before, done>>
             [] r.tag = "NonCompliant" /\ r.remediations = <<>> ->
                  /\ acc' = Append(acc, RemediedResult(es[i], FALSE, <<>>))
                  /\ flags' = [flags EXCEPT !.final_host_status = StatusAfter(FALSE)]
                  /\ i' = i + 1
                  /\ trace' = events
                  /\ host' = probed
                  /\ UNCHANGED <<sshvars, call, es, connected, up, op, pc, j, remediations,
                                 attribute_results, workers, channel, before, done>>
             [] r.tag = "NonCompliant" /\ r.remediations # <<>> ->
                  /\ pc' = "remediate"
                  /\ j' = 1
                  /\ remediations' = r.remediations
                  /\ attribute_results' = <<>>
                  /\ trace' = events
                  /\ host' = probed
                  /\ UNCHANGED <<sshvars, call, es, connected, up, op, i, acc, flags,
                                 workers, channel, before, done>>

\* one turn of `for remediation in remediations`, with what follows the loop
\* when this turn is the last one
ReachRemediate ==
    /\ op = "reach" /\ pc = "remediate"
    /\ \E rc \in {0, 1} :
        LET rem == remediations[j]
            c == RemediationReach(rem, host, up, rc)
            events == Append(trace, CallEvent(i, j, rem, c, host, up))
            results == Append(attribute_results, [remediation |-> rem, outcome |-> c.outcome])
        IN  CASE c.tag \in {"Err", "Panic"} -> Finish("reach", c, host, events)
              [] c.tag = "Called" /\ IsFailure(c.outcome) ->
                   /\ host' = c.host
                   /\ flags' = [flags EXCEPT !.reaching_compliance_failed = TRUE,
                                             !.final_host_status = StatusAfter(TRUE)]
                   /\ acc' = Append(acc, RemediedResult(es[i], TRUE, results))
                   /\ pc' = "return"
                   /\ attribute_results' = results
                   /\ trace' = events
                   /\ UNCHANGED <<sshvars, call, es, connected, up, op, i, j, remediations,
                                  workers, channel, before, done>>
              [] c.tag = "Called" /\ ~IsFailure(c.outcome) /\ j = Len(remediations) ->
                   /\ host' = c.host
                   /\ flags' = [flags EXCEPT !.final_host_status = StatusAfter(FALSE)]
                   /\ acc' = Append(acc, RemediedResult(es[i], FALSE, results))
                   /\ pc' = "loop"
                   /\ i' = i + 1
                   /\ j' = 0
                   /\ remediations' = <<>>
                   /\ attribute_results' = <<>>
                   /\ trace' = events
                   /\ UNCHANGED <<sshvars, call, es, connected, up, op, workers, channel, before, done>>
              [] c.tag = "Called" /\ ~IsFailure(c.outcome) /\ j < Len(remediations) ->
                   /\ host' = c.host
                   /\ attribute_results' = results
                   /\ j' = NextRemediation(j)
                   /\ trace' = events
                   /\ UNCHANGED <<sshvars, call, es, connected, up, op, pc, i, remediations, acc,
                                  flags, workers, channel, before, done>>

ReachReturn ==
    /\ op = "reach"
    /\ pc = "return" \/ (pc = "loop" /\ i > Len(es))
    /\ Finish("reach", Ok(flags.final_host_status, acc), host, trace)

\* ------------------------------------------------- handler and environment
Connect ==
    /\ op = "idle" /\ ~connected /\ up /\ ~Aborted /\ Len(done) < MaxOps
    /\ connected' = TRUE
    /\ UNCHANGED <<sshvars, call, es, host, up, op, pc, i, j, remediations, attribute_results,
                   acc, flags, workers, channel, trace, before, done>>

\* the SSH session ends while a sequential assessment is running: commands
\* fail from then on, and the handler may or may not report the loss
LinkLoss ==
    /\ op = "assess" /\ connected
    /\ connected' \in BOOLEAN
    /\ up' = FALSE
    /\ UNCHANGED <<sshvars, call, es, host, op, pc, i, j, remediations, attribute_results,
                   acc, flags, workers, channel, trace, before, done>>

Next ==
    \/ AssessStart \/ AssessStep \/ AssessReturn
    \/ ParallelStart \/ (\E w \in 1..MaxAttrs : WorkerAssess(w))
    \/ ParallelRecv \/ ParallelReturn
    \/ ReachStart \/ ReachAssess \/ ReachRemediate \/ ReachReturn
    \/ Connect

Spec == Init /\ [][Next]_vars

\* one attribute of any kind and any content, assessed on any host that
\* matters to it
AllAttributes ==
    {PackageAttr(k, st, p, u, "WithSudo") :
        k \in PackageKinds, st \in {"None", "Present", "Absent"},
        p \in {"None", PackageName}, u \in {"None", "True", "False"}}
    \cup {ServiceAttr(c, a, x, "WithSudo") :
        c \in {"None", "Active", "Inactive"}, a \in {"None", "Enabled", "Disabled"},
        x \in {"None", "True", "False"}}
    \cup {LineInFileAttr(l, st, pos, 0, "WithSudo") :
        l \in {"None", TheLine}, st \in {"Present", "Absent"},
        pos \in {"None", "Top", "Bottom", "Anywhere"}}
    \cup {LineInFileAttr(l, st, "N", n, "WithSudo") :
        l \in {"None", TheLine}, st \in {"Present", "Absent"}, n \in 0..(MaxLines + 2)}
    \cup {CommandAttr(<<"cmd">>, "None"), DebugAttr("msg"), PingAttr("None")}
AttrInit ==
    /\ es \in {<<a>> : a \in AllAttributes}
    /\ host \in Hosts(es)
               \cup {[h EXCEPT !.svc.odd = c] :
                        h \in {x \in Hosts(es) : Uses(es, {"Service"}) /\ x.svc.exists
                                                  /\ ~x.svc.active /\ ~x.svc.enabled},
                        c \in {1, 2, 3}}
               \cup {[h EXCEPT !.file = l] :
                        h \in {x \in Hosts(es) : Uses(es, {"LineInFile"}) /\ x.isfile},
                        l \in {f \in SeqsUpTo({TheLine, OtherLine}, MaxLines + 1) :
                                  Len(f) = MaxLines + 1}}
    /\ connected = TRUE
    /\ up \in BOOLEAN
    /\ op = "idle"
    /\ pc = "none"
    /\ i = 0
    /\ j = 0
    /\ remediations = <<>>
    /\ attribute_results = <<>>
    /\ acc = <<>>
    /\ flags = NoFlags
    /\ workers = <<>>
    /\ channel = <<>>
    /\ trace = <<>>
    /\ before = host
    /\ done = <<>>
    /\ HandlerUnused
AttrNext == AssessStart \/ AssessStep \/ AssessReturn
AttrSpec == AttrInit /\ [][AttrNext]_vars

\* reach_compliance on one attribute of any kind and any content
AttrReachSpec ==
    AttrInit /\ [][ReachStart \/ ReachAssess \/ ReachRemediate \/ ReachReturn]_vars

\* the host layer, in a specification of the handler layer alone
HostUnused ==
    /\ es = <<>>
    /\ host \in Hosts(<<>>) /\ host.tools = AllTools
    /\ connected = FALSE
    /\ up = FALSE
    /\ op = "idle"
    /\ pc = "none"
    /\ i = 0
    /\ j = 0
    /\ remediations = <<>>
    /\ attribute_results = <<>>
    /\ acc = <<>>
    /\ flags = NoFlags
    /\ workers = <<>>
    /\ channel = <<>>
    /\ trace = <<>>
    /\ before = host

\* final_command applied to one raw command, one privilege and one identity
RawCommands ==
    {<<"id">>, available("pacman", "None").cmd, <<"systemctl", "is-active", ServiceName>>,
     <<"test", "-f", FilePath>>}
Users ==
    {CurrentUser} \cup {PasswordLessUser(u) : u \in {"alice", "bob"}}
        \cup {UsernamePassword(u, p) : u \in {"alice", "bob"}, p \in {"pw1", "pw2"}}
FinalInit ==
    /\ HostUnused
    /\ done = <<>>
    /\ endpoint = "host" /\ auth = "KeyFile" /\ session = NewSession
    /\ call \in {[f |-> "args", cmd |-> c, privilege |-> p, user |-> u] :
                    c \in RawCommands, p \in Privileges, u \in Users}
FinalCommand ==
    /\ call.f = "args"
    /\ call' = [f |-> "final_command", cmd |-> call.cmd, privilege |-> call.privilege,
                user |-> call.user,
                value |-> final_command(call.cmd, call.privilege, call.user)]
    /\ UNCHANGED <<hostvars, done, sshvars>>
FinalSpec == FinalInit /\ [][FinalCommand]_vars

\* ------------------------------------------------------- Ssh2HostHandler
\* endpoint.split(':'): the address, and the port when one is given
Endpoints == {<<"host">>, <<"host", "2222">>, <<"host", "ssh">>}
AuthMethods == {"UsernamePassword", "KeyFile", "KeyMemory", "Agent"}
\* port.parse::<u16>()
ParsesAsPort(word) == word \in {"22", "2222"}
OkUnit == [tag |-> "Ok"]

\* fault: connect does not look at the session it already has
NeverConnected(s) == FALSE
\* Ssh2HostHandler::is_connected: self.session.authenticated()
Ssh2IsConnected(s) == s.authenticated

\* the value connect returns and the session it leaves, for one outcome of
\* the TCP connection, of the handshake and of the user authentication
ConnectOutcome(e, a, s, tcp_ok, handshake_ok, userauth) ==
    IF Ssh2IsConnected(s) THEN [result |-> OkUnit, session |-> s]
    ELSE IF Len(e) > 1 /\ ~ParsesAsPort(e[2])
    THEN [result |-> Err("FailedInitialization", "failure to parse given port"),
          session |-> s]
    ELSE IF ~tcp_ok THEN [result |-> Err("FailedTcpBinding", ""), session |-> s]
    ELSE LET s1 == [s EXCEPT !.tcp = s.tcp + 1, !.handshakes = s.handshakes + 1]
             s2 == [s1 EXCEPT !.auths = s1.auths + 1,
                              !.authenticated = (userauth = "accepted")]
         IN  IF ~handshake_ok
             THEN [result |-> Err("FailedInitialization", "handshake"), session |-> s1]
             ELSE IF a = "Agent"
             THEN [result |-> Err("FailedInitialization", "Other error"), session |-> s1]
             ELSE IF userauth = "error" THEN [result |-> Panic, session |-> s2]
             ELSE IF userauth = "accepted" THEN [result |-> OkUnit, session |-> s2]
             ELSE [result |-> Err("FailedInitialization", "Authentication failed"),
                   session |-> s2]

HandlerCall(kind, result, after) ==
    /\ done' = Append(done, [op |-> kind, result |-> result, before |-> session,
                             after |-> after, trace |-> <<>>])
    /\ session' = after
    /\ UNCHANGED <<hostvars, endpoint, auth, call>>

Ssh2Connect ==
    /\ Len(done) < MaxCalls /\ ~Aborted
    /\ \E tcp_ok \in BOOLEAN, handshake_ok \in BOOLEAN,
          userauth \in {"accepted", "partial", "error"} :
          LET o == ConnectOutcome(endpoint, auth, session, tcp_ok, handshake_ok, userauth)
          IN  HandlerCall("connect", o.result, o.session)

\* Ssh2HostHandler::disconnect; whether the session still reports
\* `authenticated` afterwards is left open
Ssh2Disconnect ==
    /\ Len(done) < MaxCalls /\ ~Aborted
    /\ \E ok \in BOOLEAN, still \in BOOLEAN :
          HandlerCall("disconnect",
                      IF ok THEN OkUnit
                      ELSE Err("AnyOtherError", "failed to close SSH2 session"),
                      [session EXCEPT !.authenticated = session.authenticated /\ still])

Ssh2Init ==
    /\ HostUnused
    /\ done = <<>>
    /\ endpoint \in Endpoints
    /\ auth \in AuthMethods
    /\ session = NewSession
    /\ call = NoCall
Ssh2Next == Ssh2Connect \/ Ssh2Disconnect
Ssh2Spec == Ssh2Init /\ [][Ssh2Next]_vars

\* ------------------------------------------- attribute blocks as data
\* the blocks the builders can hold when build() is called: builder() leaves
\* every field unset, with_package_state sets package and state together,
\* with_system_upgrade sets upgrade to Some(true); the service setters set
\* current_status, auto_start and exists one by one
Builders ==
    {[kind |-> k, state |-> sp[1], package |-> sp[2], upgrade |-> u] :
        k \in PackageKinds,
        sp \in {<<"None", "None">>, <<"Present", PackageName>>, <<"Absent", PackageName>>},
        u \in {"None", "True"}}
    \cup {[kind |-> "Service", name |-> ServiceName, current_status |-> c,
           auto_start |-> a, exists |-> x] :
            c \in {"None", "Active", "Inactive"}, a \in {"None", "Enabled", "Disabled"},
            x \in {"None", "True", "False"}}

\* build(): the call of check() is commented out, Ok(self.clone()) is all
\* that is left
build(block) == [tag |-> "Ok", value |-> block]

\* a YAML mapping handed to serde for a package block: each key is missing,
\* null, or has a value
Documents ==
    {[kind |-> k, package |-> p, state |-> st, upgrade |-> u, unknown_key |-> x] :
        k \in PackageKinds, p \in {"Missing", "Null", PackageName},
        st \in {"Missing", "Null", "present", "absent"},
        u \in {"Missing", "Null", "true", "false"},
        x \in {"Missing", "unknown_value"}}

\* #[derive(Deserialize)] #[serde(deny_unknown_fields)] on three Option
\* fields: an unknown key is an error, a missing or null key is None, and
\* PackageExpectedState is renamed to lowercase
from_str(doc) ==
    IF doc.unknown_key # "Missing"
    THEN Err("Deserialize", "unknown field unknown_key")
    ELSE [tag |-> "Ok",
          value |-> [kind |-> doc.kind,
                     state |-> CASE doc.state = "present" -> "Present"
                                 [] doc.state = "absent" -> "Absent"
                                 [] OTHER -> "None",
                     package |-> IF doc.package \in {"Missing", "Null"}
                                 THEN "None" ELSE doc.package,
                     upgrade |-> CASE doc.upgrade = "true" -> "True"
                                   [] doc.upgrade = "false" -> "False"
                                   [] OTHER -> "None"]]

\* values that hold a secret: Credentials, WhichUser, Ssh2AuthMethod and the
\* Ssh2HostHandler built on it
Secrets ==
    LET names == {"alice", "bob"}
        words == {"pw1", "pw2"}
        methods ==
            {[type |-> "Ssh2AuthMethod", method |-> m, username |-> u, secret |-> w] :
                m \in {"UsernamePassword", "KeyMemory"}, u \in names, w \in words}
            \cup {[type |-> "Ssh2AuthMethod", method |-> "KeyFile", username |-> u,
                   key_path |-> "id_rsa"] : u \in names}
            \cup {[type |-> "Ssh2AuthMethod", method |-> "Agent", agent_name |-> "agent"]}
    IN  {[type |-> "Credentials", username |-> u, password |-> w] :
            u \in names, w \in words}
        \cup {[type |-> "WhichUser", user |-> u] : u \in Users}
        \cup methods
        \cup {[type |-> "Ssh2HostHandler", auth |-> a, authenticated |-> b] :
                a \in methods, b \in BOOLEAN}

\* the {:?} text of a value, as the sequence of its pieces: #[derive(Debug)]
\* prints every field, the hand-written impls print "********" for the
\* password and the key
RECURSIVE fmt(_)
fmt(v) ==
    CASE v.type = "Credentials" ->
            <<"Credentials {", "username:", v.username, "password:", v.password, "}">>
      [] v.type = "WhichUser" ->
            (CASE v.user.kind = "CurrentUser" -> <<"CurrentUser">>
               [] v.user.kind = "PasswordLessUser" ->
                    <<"PasswordLessUser(", v.user.username, ")">>
               [] v.user.kind = "UsernamePassword" ->
                    <<"UsernamePassword(">>
                    \o fmt([type |-> "Credentials", username |-> v.user.username,
                            password |-> v.user.password])
                    \o <<")">>)
      [] v.type = "Ssh2AuthMethod" ->
            (CASE v.method = "UsernamePassword" ->
                    <<"UsernamePassword(", "Credentials {", "username:", v.username,
                      "password:", "********", "}", ")">>
               [] v.method = "KeyFile" -> <<"KeyFile((", v.username, v.key_path, "))">>
               [] v.method = "KeyMemory" -> <<"KeyMemory((", v.username, "********", "))">>
               [] v.method = "Agent" -> <<"Agent(", v.agent_name, ")">>)
      [] v.type = "Ssh2HostHandler" ->
            <<"Ssh2HostHandler {", "auth:">> \o fmt(v.auth)
            \o <<"authenticated:", IF v.authenticated THEN "true" ELSE "false", "}">>

Fmt ==
    /\ call.f = "value"
    /\ call' = [f |-> "fmt", value |-> call.value, text |-> fmt(call.value)]
    /\ UNCHANGED <<hostvars, done, sshvars>>

\* ------------------------------------------------------ RegentTask as JSON
\* the tasks serialised: a host with its handler, up to two attributes, a job
\* and the correlation id given at construction
Tasks ==
    LET attrs ==
            {PackageAttr("Apt", "Present", PackageName, "None", "WithSudo"),
             PackageAttr("Pacman", "None", "None", "True", "None"),
             PackageAttr("YumDnf", "Absent", PackageName, "False", "WithSudoRs"),
             ServiceAttr("Active", "None", "None", "WithSudo"),
             ServiceAttr("Inactive", "Disabled", "False", "None"),
             LineInFileAttr(TheLine, "Present", "Top", 0, "WithSudo"),
             LineInFileAttr("None", "Absent", "None", 0, "None"),
             LineInFileAttr(TheLine, "Present", "N", 1, "WithSudoRs"),
             CommandAttr(<<"cmd">>, "WithSudo"), DebugAttr("msg"), PingAttr("None")}
        handlers ==
            {[kind |-> "LocalHostHandler", user |-> CurrentUser],
             [kind |-> "LocalHostHandler", user |-> UsernamePassword("alice", "pw1")],
             [kind |-> "Ssh2HostHandler", method |-> "UsernamePassword",
              username |-> "alice", secret |-> "pw2"],
             [kind |-> "Ssh2HostHandler", method |-> "KeyFile",
              username |-> "bob", secret |-> "id_rsa"]}
    IN  {[host |-> [endpoint |-> "localhost", handler |-> h], expected_state |-> e,
          job |-> jb, correlation_id |-> "V1StGXR8_Z5jdHi6B-myT"] :
            h \in handlers, e \in SeqsUpTo(attrs, 2), jb \in {"Assess", "Reach"}}

\* fault: Serialize without #[serde(rename_all = "lowercase")]
EncodeVerbatim(v) == IF v = "None" THEN "Null" ELSE v
\* Serialize of a field: None is null, a bool is true or false, a variant of
\* an enum renamed to lowercase goes under its lowercase name, a String as is
encode(v) ==
    CASE v = "None" -> "Null"
      [] v = "True" -> "true"         [] v = "False" -> "false"
      [] v = "Present" -> "present"   [] v = "Absent" -> "absent"
      [] v = "Active" -> "active"     [] v = "Inactive" -> "inactive"
      [] v = "Enabled" -> "enabled"   [] v = "Disabled" -> "disabled"
      [] v = "Top" -> "top"           [] v = "Bottom" -> "bottom"
      [] v = "Anywhere" -> "anywhere"
      [] OTHER -> v
\* Deserialize of a field
decode(js) ==
    CASE js \in {"Null", "Missing"} -> "None"
      [] js = "true" -> "True"         [] js = "false" -> "False"
      [] js = "present" -> "Present"   [] js = "absent" -> "Absent"
      [] js = "active" -> "Active"     [] js = "inactive" -> "Inactive"
      [] js = "enabled" -> "Enabled"   [] js = "disabled" -> "Disabled"
      [] js = "top" -> "Top"           [] js = "bottom" -> "Bottom"
      [] js = "anywhere" -> "Anywhere"
      [] OTHER -> js

\* the handler in the serialised host: its kind and its authentication mode,
\* secrets included
handler_to_json(h) ==
    IF h.kind = "LocalHostHandler"
    THEN [handler |-> "localhost", user |-> h.user]
    ELSE [handler |-> "ssh2", auth |-> <<h.method, h.username, h.secret>>]
handler_from_json(js) ==
    IF js.handler = "localhost"
    THEN [kind |-> "LocalHostHandler", user |-> js.user]
    ELSE [kind |-> "Ssh2HostHandler", method |-> js.auth[1], username |-> js.auth[2],
          secret |-> js.auth[3]]

\* #[derive(Serialize)] on RegentTask, ManagedHost, ExpectedState, Attribute,
\* AttributeDetail (externally tagged) and the block of each kind
to_json(task) ==
    LET block(a) ==
            CASE a.kind \in PackageKinds ->
                    [kind |-> a.kind, package |-> encode(a.package),
                     state |-> encode(a.state), upgrade |-> encode(a.upgrade),
                     unknown_key |-> "Missing"]
              [] a.kind = "Service" ->
                    [name |-> a.name, current_status |-> encode(a.current_status),
                     auto_start |-> encode(a.auto_start), exists |-> encode(a.exists)]
              [] a.kind = "LineInFile" ->
                    [filepath |-> a.filepath, line |-> encode(a.line),
                     state |-> encode(a.state),
                     position |-> IF a.position = "N" THEN ToString(a.n)
                                  ELSE encode(a.position)]
              [] a.kind = "Command" -> [cmd |-> a.cmd]
              [] a.kind = "Debug" -> [msg |-> a.msg]
              [] a.kind = "Ping" -> <<>>
        e == task.expected_state
    IN  [host |-> [endpoint |-> task.host.endpoint,
                   handler |-> handler_to_json(task.host.handler)],
         expected_state |->
            [attributes |->
                [k \in DOMAIN e |->
                    [privilege |-> e[k].privilege,
                     detail |-> [variant |-> e[k].kind, block |-> block(e[k])]]]],
         job |-> task.job,
         correlation_id |-> task.correlation_id]

\* #[derive(Deserialize)] on the same types; SpecificLineNumber(u64) is the
\* untagged variant of LineExpectedPosition, tried after the named ones
from_json(js) ==
    LET attribute(a) ==
            LET b == a.detail.block
                k == a.detail.variant
            IN  CASE k \in PackageKinds ->
                        LET r == from_str(b)
                        IN  IF r.tag = "Ok"
                            THEN PackageAttr(k, r.value.state, r.value.package,
                                             r.value.upgrade, a.privilege)
                            ELSE r
                  [] k = "Service" ->
                        ServiceAttr(decode(b.current_status), decode(b.auto_start),
                                    decode(b.exists), a.privilege)
                  [] k = "LineInFile" ->
                        IF b.position \in {"Null", "top", "bottom", "anywhere"}
                        THEN LineInFileAttr(decode(b.line), decode(b.state),
                                            decode(b.position), 0, a.privilege)
                        ELSE LineInFileAttr(decode(b.line), decode(b.state), "N",
                                            CHOOSE n \in 0..(MaxLines + 1) :
                                                ToString(n) = b.position,
                                            a.privilege)
                  [] k = "Command" -> CommandAttr(b.cmd, a.privilege)
                  [] k = "Debug" -> DebugAttr(b.msg)
                  [] k = "Ping" -> PingAttr(a.privilege)
        list == js.expected_state.attributes
        e == [k \in DOMAIN list |-> attribute(list[k])]
    IN  IF \E k \in DOMAIN e : "tag" \in DOMAIN e[k]
        THEN Err("Deserialize", "expected_state")
        ELSE [tag |-> "Ok",
              value |-> [host |-> [endpoint |-> js.host.endpoint,
                                   handler |-> handler_from_json(js.host.handler)],
                         expected_state |-> e,
                         job |-> js.job,
                         correlation_id |-> js.correlation_id]]

\* serde_json::to_string(&regent_task)
ToJson ==
    /\ call.f = "task"
    /\ call' = [f |-> "to_string", task |-> call.task, json |-> to_json(call.task)]
    /\ UNCHANGED <<hostvars, done, sshvars>>

\* serde_json::from_str::<RegentTask<_>>(&raw_regent_task)
FromJson ==
    /\ call.f = "to_string"
    /\ call' = [f |-> "from_json", task |-> call.task, json |-> call.json,
                result |-> from_json(call.json)]
    /\ UNCHANGED <<hostvars, done, sshvars>>

Build ==
    /\ call.f = "builder"
    /\ call' = [f |-> "build", block |-> call.block, result |-> build(call.block)]
    /\ UNCHANGED <<hostvars, done, sshvars>>

FromStr ==
    /\ call.f = "document"
    /\ call' = [f |-> "from_str", doc |-> call.doc, result |-> from_str(call.doc)]
    /\ UNCHANGED <<hostvars, done, sshvars>>

DataInit ==
    /\ HostUnused
    /\ done = <<>>
    /\ endpoint = "host" /\ auth = "KeyFile" /\ session = NewSession
    /\ call \in {[f |-> "builder", block |-> b] : b \in Builders}
            \cup {[f |-> "document", doc |-> d] : d \in Documents}
            \cup {[f |-> "value", value |-> v] : v \in Secrets}
            \cup {[f |-> "task", task |-> t] : t \in Tasks}
DataSpec == DataInit /\ [][Build \/ FromStr \/ Fmt \/ ToJson \/ FromJson]_vars

\* ------------------------------------------------------------ StepFlow::apply
\* `call` holds the StepFlow (allowed_to_fail, step_change, step_result,
\* step_status), the sudo options of its step, what dry_run_moduleblock and
\* apply_moduleblockchange give for it (the statuses of the API calls, among
\* ApiCallStatus::ChangeSuccessful and ApiCallStatus::Failure), how far apply
\* has come and what it returned.
StepInit ==
    /\ HostUnused
    /\ done = <<>>
    /\ endpoint = "host" /\ auth = "KeyFile" /\ session = NewSession
    /\ call \in {[f |-> "apply", with_sudo |-> ws, with_sudo_rs |-> wr,
                  allowed_to_fail |-> allowed, dry |-> dr, apicallresults |-> rs,
                  step_status |-> earlier[1], step_change |-> earlier[2],
                  step_result |-> [some |-> FALSE, list |-> <<>>],
                  pc |-> "dry_run", ret |-> [tag |-> "none"]] :
                    ws \in {"None", "True", "False"}, wr \in {"None", "True", "False"},
                    allowed \in BOOLEAN, dr \in {"Err", "AlreadyMatched", "ModuleApiCalls"},
                    rs \in SeqsUpTo({"ChangeSuccessful", "Failure"}, MaxResults),
                    earlier \in {<<"NotRunYet", "None">>, <<"AlreadyMatched", "AlreadyMatched">>,
                                 <<"ChangeRequired", "ModuleApiCalls">>}}

\* the privilege match and "Dry run -> Changes"
StepDryRun ==
    /\ call.f = "apply" /\ call.pc = "dry_run"
    /\ call' =
          IF call.with_sudo = "True" /\ call.with_sudo_rs = "True"
          THEN [call EXCEPT !.pc = "returned",
                            !.ret = Err("FailedInitialization",
                                        "with_sudo and with_sudo_rs are mutually exclusive")]
          ELSE IF call.dry = "Err"
          THEN [call EXCEPT !.pc = "returned", !.ret = Err("FailedDryRunEvaluation", "")]
          ELSE [call EXCEPT !.pc = "apply",
                            !.step_status = IF call.dry = "AlreadyMatched"
                                            THEN "AlreadyMatched" ELSE "ChangeRequired",
                            !.step_change = call.dry]
    /\ UNCHANGED <<hostvars, endpoint, auth, session, done>>

\* fault: the last API call result alone decides
LastResultDecides(apicallresults, allowed_to_fail, k, step_status) ==
    IF apicallresults # <<>> /\ apicallresults[Len(apicallresults)] = "Failure"
    THEN IF allowed_to_fail THEN "ApplyFailedButAllowed" ELSE "ApplyFailed"
    ELSE "ApplySuccessful"
\* `for apicallresult in result.apicallresults` from the k-th result on, with
\* step_status as the loop has left it so far
RECURSIVE StatusLoop(_, _, _, _)
StatusLoop(apicallresults, allowed_to_fail, k, step_status) ==
    IF k > Len(apicallresults) THEN step_status
    ELSE IF apicallresults[k] = "Failure"
    THEN IF allowed_to_fail
         THEN StatusLoop(apicallresults, allowed_to_fail, k + 1, "ApplyFailedButAllowed")
         ELSE "ApplyFailed"
    ELSE StatusLoop(apicallresults, allowed_to_fail, k + 1, step_status)

\* "Apply the changes"
StepApply ==
    /\ call.f = "apply" /\ call.pc = "apply"
    /\ call' =
          IF call.step_change = "None"
          THEN [call EXCEPT !.pc = "returned", !.ret = Err("WorkFlowNotFollowed", "")]
          ELSE [call EXCEPT !.pc = "returned",
                            !.step_status = StatusLoop(call.apicallresults,
                                                       call.allowed_to_fail, 1,
                                                       "ApplySuccessful"),
                            !.step_result = [some |-> TRUE, list |-> call.apicallresults],
                            !.ret = [tag |-> "Ok"]]
    /\ UNCHANGED <<hostvars, endpoint, auth, session, done>>

StepSpec == StepInit /\ [][StepDryRun \/ StepApply]_vars

\* ---------------------------------------------------------- RegentTask::run
\* `call` holds the task being run: its job, its correlation id, how far run
\* has come, what connect returned and what run returned
TaskInit ==
    /\ es \in ExpectedStates
    /\ host \in Hosts(es)
    /\ connected \in BOOLEAN
    /\ up \in BOOLEAN
    /\ op = "idle"
    /\ pc = "none"
    /\ i = 0
    /\ j = 0
    /\ remediations = <<>>
    /\ attribute_results = <<>>
    /\ acc = <<>>
    /\ flags = NoFlags
    /\ workers = <<>>
    /\ channel = <<>>
    /\ trace = <<>>
    /\ before = host
    /\ done = <<>>
    /\ endpoint = "host" /\ auth = "KeyFile" /\ session = NewSession
    /\ call \in {[f |-> "run", job |-> jb, correlation_id |-> c, pc |-> "connect",
                  connect |-> [tag |-> "none"], result |-> [tag |-> "none"]] :
                    jb \in {"Assess", "Reach"}, c \in {"V1StGXR8_Z5jdHi6B-myT", "id2"}}

\* fault: the value connect returns is dropped, the job is started anyway
IgnoreConnectError ==
    /\ call.f = "run" /\ call.pc = "connect"
    /\ connected' = (connected \/ up)
    /\ call' = [call EXCEPT !.pc = "job",
                            !.connect = IF connected \/ up THEN OkUnit
                                        ELSE Err("FailedTcpBinding", "")]
    /\ UNCHANGED <<sshvars, es, host, up, op, pc, i, j, remediations, attribute_results,
                   acc, flags, workers, channel, trace, before, done>>
\* self.host.connect()?: a handler already connected answers Ok, a reachable
\* host gets connected, and the error of an unreachable one ends run
TaskConnect ==
    /\ call.f = "run" /\ call.pc = "connect"
    /\ connected' = (connected \/ up)
    /\ call' = IF connected \/ up
               THEN [call EXCEPT !.pc = "job", !.connect = OkUnit]
               ELSE [call EXCEPT !.pc = "returned",
                                 !.connect = Err("FailedTcpBinding", ""),
                                 !.result = Err("FailedTcpBinding", "")]
    /\ UNCHANGED <<sshvars, es, host, up, op, pc, i, j, remediations, attribute_results,
                   acc, flags, workers, channel, trace, before, done>>

\* match self.job: the operation of the host that is called
TaskJob ==
    /\ call.f = "run" /\ call.pc = "job" /\ done = <<>>
    /\ \/ call.job = "Assess" /\ AssessStart
       \/ call.job = "Reach" /\ ReachStart

\* the `?` on the job's result, then Ok(RegentTaskResult::from(..))
TaskReturn ==
    /\ call.f = "run" /\ call.pc = "job" /\ op = "idle" /\ Len(done) = 1
    /\ call' = [call EXCEPT
                    !.pc = "returned",
                    !.result = IF done[1].result.tag = "Ok"
                               THEN [tag |-> "Ok", correlation_id |-> call.correlation_id,
                                     host_status |-> done[1].result]
                               ELSE done[1].result]
    /\ UNCHANGED <<hostvars, done, sshvars>>

TaskSpec ==
    TaskInit /\ [][TaskConnect \/ TaskJob \/ AssessStep \/ AssessReturn
                   \/ ReachAssess \/ ReachRemediate \/ ReachReturn \/ TaskReturn]_vars

\* sequential assessment over a connection that can be lost at any moment
LinkNext == AssessStart \/ AssessStep \/ AssessReturn \/ Connect \/ LinkLoss
LinkSpec == Init /\ [][LinkNext]_vars

TypeOK ==
    /\ op \in {"idle", "assess", "parallel", "reach"}
    /\ Len(done) <= MaxOps

\* ------------------------------------------------------------ observations
Finished(kind) == {k \in 1..Len(done) : done[k].op = kind}
\* the event lists of reach_compliance: the finished runs and the one in progress
ReachTraces ==
    {done[k].trace : k \in Finished("reach")} \cup (IF op = "reach" THEN {trace} ELSE {})
AssessEvents(t) == {k \in 1..Len(t) : t[k].ev = "assess"}
Calls(t) == {k \in 1..Len(t) : t[k].ev = "call"}
Failures(t) == {k \in Calls(t) : t[k].result = "Failure"}
ReturnedOk(d) == d.result.tag = "Ok"

\* C1: reach_compliance handles the attributes in declaration order, and a
\* remediation that returns Failure is the last thing the run does: no other
\* remediation of that attribute, no assessment or remediation of a later
\* attribute, and the status returned is FailedReachedCompliance.
C1_StopAtFirstFailure ==
    /\ \A t \in ReachTraces :
         /\ \A k \in Failures(t) : k = Len(t)
         /\ \A k \in 1..Len(t), l \in 1..Len(t) : k < l => t[k].i <= t[l].i
         /\ \A k \in AssessEvents(t) :
                t[k].i = Cardinality({l \in AssessEvents(t) : l <= k})
    /\ \A k \in Finished("reach") :
         Failures(done[k].trace) # {} =>
            /\ ReturnedOk(done[k])
            /\ done[k].result.status = "FailedReachedCompliance"

\* a run over two attributes whose first attribute has two remediations, the
\* first of which fails: nothing else happens
C1_Witness ==
    \E k \in Finished("reach") :
        LET t == done[k].trace
        IN  /\ Len(es) = 2
            /\ Len(t) = 2
            /\ t[1].ev = "assess" /\ t[1].result = "NonCompliant"
            /\ Len(t[1].assessment.remediations) = 2
            /\ t[2].ev = "call" /\ t[2].i = 1 /\ t[2].j = 1 /\ t[2].result = "Failure"
            /\ done[k].result.status = "FailedReachedCompliance"

\* C2: the remediations of a reach_compliance run execute once each, in the
\* order (position of the attribute, position in the attribute's list): the
\* calls carry strictly increasing (i, j), call (i, j) is entry j of the list
\* attribute i was assessed with, and the calls of an attribute directly
\* follow its assessment, so a later attribute starts only after them.
C2_OnceInOrder ==
    \A t \in ReachTraces :
        /\ \A k \in Calls(t), l \in Calls(t) :
              k < l => \/ t[k].i < t[l].i
                       \/ (t[k].i = t[l].i /\ t[k].j < t[l].j)
        /\ \A k \in Calls(t) :
              LET a == k - t[k].j
              IN  /\ a \in AssessEvents(t)
                  /\ t[a].i = t[k].i
                  /\ t[a].result = "NonCompliant"
                  /\ t[k].j <= Len(t[a].assessment.remediations)
                  /\ t[k].remediation = t[a].assessment.remediations[t[k].j]
                  /\ Len(t[k].requests) <= 2

\* two attributes remedied with three calls in all, none failing
C2_Witness ==
    \E k \in Finished("reach") :
        LET t == done[k].trace
        IN  /\ ReturnedOk(done[k])
            /\ done[k].result.status = "ReachedCompliance"
            /\ Cardinality(Calls(t)) = 3
            /\ {t[c].i : c \in Calls(t)} = {1, 2}

\* a remediation list with None entries next to concrete remediations
Mixed(list) ==
    /\ \E k \in 1..Len(list) : IsNoneRem(list[k])
    /\ \E k \in 1..Len(list) : ~IsNoneRem(list[k])

\* C3: when an attribute is assessed NonCompliant with a list holding None
\* entries next to concrete remediations, reach_compliance passes over the
\* None entries without an error, calls the concrete remediations, and
\* reports the attribute ReachedCompliance when none of them fails.
C3_NoneEntriesSkipped ==
    \A k \in Finished("reach") :
        LET t == done[k].trace
        IN  \A a \in AssessEvents(t) :
                (t[a].result = "NonCompliant" /\ Mixed(t[a].assessment.remediations)) =>
                    /\ ReturnedOk(done[k])
                    /\ \A c \in Calls(t) : t[c].result # "Err"
                    /\ Failures(t) = {} =>
                          done[k].result.list[t[a].i].status = "ReachedCompliance"

\* operation k + 1 returned AlreadyCompliant with every attribute Compliant
ConvergedAt(k) ==
    /\ done[k + 1].result.tag = "Ok"
    /\ done[k + 1].result.status = "AlreadyCompliant"
    /\ \A a \in 1..Len(done[k + 1].result.list) :
          done[k + 1].result.list[a].assessment = Compliant
ReachThenAssess ==
    {k \in Finished("reach") :
        /\ ReturnedOk(done[k])
        /\ done[k].result.status = "ReachedCompliance"
        /\ k + 1 \in Finished("assess")}

\* C4 as stated: a reach_compliance that returned ReachedCompliance is followed
\* by an assess_compliance that returns AlreadyCompliant, for every
\* ExpectedState and every host.
C4_ConvergenceForEveryState ==
    \A k \in ReachThenAssess : ConvergedAt(k)

\* what an attribute is about
Resource(attr) ==
    CASE attr.kind \in PackageKinds -> <<"package", attr.package>>
      [] attr.kind = "Service" -> <<"service", attr.name>>
      [] attr.kind = "LineInFile" -> <<"file", attr.filepath>>
      [] OTHER -> <<"none", attr.kind>>
Converging(e) ==
    /\ \A k \in 1..Len(e) :
          /\ e[k].kind # "Command"
          /\ e[k].kind \in PackageKinds => e[k].upgrade # "True"
          /\ e[k].kind = "LineInFile" => e[k].position # "Bottom"
    /\ \A k \in 1..Len(e), l \in 1..Len(e) :
          e[k] # e[l] => Resource(e[k]) # Resource(e[l])

\* C4, restricted to the ExpectedStates that can converge (no Command
\* attribute, no package attribute with upgrade = true, no lineinfile
\* attribute with position Bottom, and no two different attributes about the
\* same package, service or file): after a reach_compliance that returned
\* ReachedCompliance, the next assess_compliance finds every attribute
\* Compliant and returns AlreadyCompliant.
C4_Convergence ==
    /\ \A k \in ReachThenAssess : Converging(es) => ConvergedAt(k)
    /\ (/\ op = "assess" /\ done # <<>> /\ Converging(es)
        /\ done[Len(done)].op = "reach" /\ ReturnedOk(done[Len(done)])
        /\ done[Len(done)].result.status = "ReachedCompliance")
       => flags.already_compliant

\* a two-attribute state, both attributes remedied, then assessed compliant
C4_Witness ==
    \E k \in ReachThenAssess :
        /\ Converging(es)
        /\ Len(es) = 2
        /\ Cardinality(Calls(done[k].trace)) >= 2
        /\ {done[k].trace[c].i : c \in Calls(done[k].trace)} = {1, 2}
        /\ done[k].after # done[k].before
        /\ ConvergedAt(k)

\* C5: an attribute that assess finds Compliant is left alone by
\* reach_compliance: within a run, it is recorded AlreadyCompliant without
\* details and no remediation is called for it; and when assess_compliance
\* found it Compliant and the host is still the same when the next
\* reach_compliance gets to it, that run finds it Compliant as well.
C5_CompliantLeftAlone ==
    /\ \A t \in ReachTraces :
          \A a \in AssessEvents(t) :
              t[a].result = "Compliant" => \A c \in Calls(t) : t[c].i # t[a].i
    /\ \A k \in Finished("reach") :
          LET t == done[k].trace
          IN  ReturnedOk(done[k]) =>
                \A a \in AssessEvents(t) :
                    t[a].result = "Compliant" =>
                        done[k].result.list[t[a].i] =
                            AttributeResult(es[t[a].i], "AlreadyCompliant", NoDetails)
    /\ \A k \in Finished("assess") :
          (ReturnedOk(done[k]) /\ k + 1 \in Finished("reach")) =>
             LET t == done[k + 1].trace
             IN  \A a \in AssessEvents(t) :
                    (/\ done[k].result.list[t[a].i].assessment = Compliant
                     /\ t[a].host = done[k].trace[t[a].i].host)
                    => t[a].result = "Compliant"

\* assess_compliance found the second of two attributes Compliant; the
\* reach_compliance after it remedies the first and leaves the second alone
C5_Witness ==
    \E k \in Finished("assess") :
        /\ ReturnedOk(done[k]) /\ k + 1 \in Finished("reach")
        /\ Len(es) = 2
        /\ done[k].result.list[1].assessment.tag = "NonCompliant"
        /\ done[k].result.list[2].assessment = Compliant
        /\ ReturnedOk(done[k + 1])
        /\ done[k + 1].result.status = "ReachedCompliance"
        /\ done[k + 1].result.list[2] = AttributeResult(es[2], "AlreadyCompliant", NoDetails)
        /\ \A c \in Calls(done[k + 1].trace) : done[k + 1].trace[c].i = 1

\* C6: the host status reach_compliance returns is AlreadyCompliant exactly
\* when every attribute was assessed Compliant, ReachedCompliance exactly when
\* some attribute was assessed NonCompliant and no remediation failed,
\* FailedReachedCompliance exactly when a remediation failed, and never
\* NonCompliant.
C6_HostStatus ==
    \A k \in Finished("reach") :
        LET t == done[k].trace
            status == done[k].result.status
            assessed == {t[a].i : a \in AssessEvents(t)}
            nonCompliant == {a \in AssessEvents(t) : t[a].result = "NonCompliant"}
        IN  ReturnedOk(done[k]) =>
              /\ status \in {"AlreadyCompliant", "ReachedCompliance",
                             "FailedReachedCompliance"}
              /\ status = "AlreadyCompliant" <=>
                    (assessed = 1..Len(es) /\ nonCompliant = {})
              /\ status = "ReachedCompliance" <=>
                    (nonCompliant # {} /\ Failures(t) = {})
              /\ status = "FailedReachedCompliance" <=> Failures(t) # {}

\* the three statuses are all returned: here a run whose first attribute is
\* Compliant and whose second is remedied
C6_Witness ==
    \E k \in Finished("reach") :
        LET t == done[k].trace
        IN  /\ ReturnedOk(done[k])
            /\ done[k].result.status = "ReachedCompliance"
            /\ Len(es) = 2
            /\ t[1].result = "Compliant"
            /\ t[2].result = "NonCompliant"
            /\ Calls(t) # {}

Assessments == Finished("assess") \cup Finished("parallel")

\* C7: assess_compliance and assess_compliance_in_parallel call no
\* remediation, and the host (package, service, file) is the same after the
\* assessment as before it, at every step of it.
C7_AssessReadOnly ==
    /\ \A k \in Assessments :
          /\ Calls(done[k].trace) = {}
          /\ done[k].after = done[k].before
    /\ op \in {"assess", "parallel"} => (Calls(trace) = {} /\ host = before)

\* a sequential and a parallel assessment of a non-compliant host, each
\* having run its probes on the host
C7_Witness ==
    /\ Finished("assess") # {} /\ Finished("parallel") # {}
    /\ \A k \in Assessments :
          /\ ReturnedOk(done[k])
          /\ done[k].result.status = "NonCompliant"
          /\ Len(done[k].trace) = 2
          /\ \A a \in 1..2 : Len(done[k].trace[a].requests) >= 2

\* C8: a remediation that returns Failure is reported as data:
\* reach_compliance returns Ok, the attribute's entry is the last of the list,
\* has status FailedReachedCompliance, and its details are the remediations
\* called for it, in order, each with its outcome, the failing one last.
C8_FailureIsData ==
    \A k \in Finished("reach") :
        LET t == done[k].trace
        IN  \A f \in Failures(t) :
              LET a == t[f].i
                  list == done[k].result.list
              IN  /\ ReturnedOk(done[k])
                  /\ Len(list) = a
                  /\ list[a].attribute = es[a]
                  /\ list[a].status = "FailedReachedCompliance"
                  /\ list[a].details.some
                  /\ Len(list[a].details.list) = t[f].j
                  /\ \A m \in 1..t[f].j :
                        list[a].details.list[m] =
                            [remediation |-> t[f - t[f].j + m].remediation,
                             outcome |-> t[f - t[f].j + m].result]

\* the second remediation of an attribute fails after the first succeeded
C8_Witness ==
    \E k \in Finished("reach") :
        LET t == done[k].trace
        IN  \E f \in Failures(t) :
              /\ t[f].j = 2
              /\ ReturnedOk(done[k])
              /\ done[k].result.list[t[f].i].details.list[1].outcome = "Success"
              /\ done[k].result.list[t[f].i].details.list[2].outcome = "Failure"

\* C9: sequential assess_compliance returns AlreadyCompliant if and only if
\* every attribute was assessed Compliant, and NonCompliant otherwise.
C9_AssessStatus ==
    \A k \in Finished("assess") :
        LET t == done[k].trace
        IN  ReturnedOk(done[k]) =>
              /\ Len(t) = Len(es)
              /\ done[k].result.status \in {"AlreadyCompliant", "NonCompliant"}
              /\ done[k].result.status = "AlreadyCompliant" <=>
                    \A a \in 1..Len(es) : t[a].result = "Compliant"

\* one attribute Compliant, the other not: NonCompliant
C9_Witness ==
    \E k \in Finished("assess") :
        /\ ReturnedOk(done[k])
        /\ Len(es) = 2
        /\ done[k].trace[1].result = "Compliant"
        /\ done[k].trace[2].result = "NonCompliant"
        /\ done[k].result.status = "NonCompliant"

\* C10: when sequential assess_compliance returns Ok, its list has one entry
\* per attribute, in declaration order, each pairing the attribute with the
\* assessment computed for it.
C10_AssessList ==
    \A k \in Finished("assess") :
        LET t == done[k].trace
            list == done[k].result.list
        IN  ReturnedOk(done[k]) =>
              /\ Len(list) = Len(es)
              /\ \A a \in 1..Len(es) :
                    /\ t[a].ev = "assess" /\ t[a].i = a
                    /\ list[a] = [attribute |-> es[a], assessment |-> t[a].assessment]
                    /\ list[a].assessment = Assess(es[a], done[k].before, up)

\* two different attributes with two different assessments
C10_Witness ==
    \E k \in Finished("assess") :
        /\ ReturnedOk(done[k])
        /\ Len(es) = 2
        /\ es[1] # es[2]
        /\ done[k].result.list[1].assessment.tag = "NonCompliant"
        /\ done[k].result.list[2].assessment = Compliant

\* ------------------------------------------------- parallel and sequential
Count(list, x) == Cardinality({k \in 1..Len(list) : list[k] = x})
SameMultiset(l1, l2) ==
    /\ Len(l1) = Len(l2)
    /\ \A k \in 1..Len(l1) : Count(l1, l1[k]) = Count(l2, l1[k])
\* a sequential and a parallel assessment that started on the same host
SamePair(a, b) ==
    /\ a \in Finished("assess") /\ b \in Finished("parallel")
    /\ done[a].before = done[b].before
    /\ done[a].result # NotConnected /\ done[b].result # NotConnected

\* C11: for one ExpectedState and one unchanged host, the sequential and the
\* parallel assessment agree on whether a value is returned, on the host
\* status, and on the multiset of (attribute, assessment) pairs, whatever
\* the order in which the workers complete.
C11_ParallelAsSequential ==
    \A a \in 1..Len(done), b \in 1..Len(done) :
        SamePair(a, b) =>
            /\ ReturnedOk(done[a]) <=> ReturnedOk(done[b])
            /\ ReturnedOk(done[a]) =>
                  /\ done[a].result.status = done[b].result.status
                  /\ SameMultiset(done[a].result.list, done[b].result.list)

\* the two assessments of two different attributes, one of them
\* non-compliant, the parallel one receiving them in the reverse order
C11_Witness ==
    \E a \in 1..Len(done), b \in 1..Len(done) :
        /\ SamePair(a, b)
        /\ ReturnedOk(done[a]) /\ ReturnedOk(done[b])
        /\ done[a].result.status = "NonCompliant"
        /\ Len(done[a].result.list) = 2
        /\ done[a].result.list[1] # done[a].result.list[2]
        /\ done[b].result.list[1] = done[a].result.list[2]
        /\ done[b].result.list[2] = done[a].result.list[1]

\* every worker has ended, nothing is left on the channel, and the parent
\* has receives left to do
Starved ==
    /\ op = "parallel" /\ pc = "recv" /\ i <= Len(es)
    /\ channel = <<>>
    /\ \A w \in DOMAIN workers : workers[w] # "running"

\* C12: parallel assessment always terminates: once the last worker has
\* ended, a receive on the empty channel completes (with an error) instead
\* of blocking, also when a worker ended without sending.
C12_ParallelTerminates == Starved => ENABLED ParallelRecv

\* the step in which assess_compliance_in_parallel returns an error
ParallelFails ==
    /\ op = "parallel" /\ op' = "idle"
    /\ done'[Len(done')].result.tag = "Err"

ParallelTraces ==
    {done[k].trace : k \in Finished("parallel")}
        \cup (IF op = "parallel" THEN {trace} ELSE {})
Executing(t) == {t[k].i : k \in {n \in 1..Len(t) : t[n].requests # <<>>}}

\* C14: in a parallel assessment each worker executes its commands over an
\* SSH session of its own: not the session of another worker, and not the
\* session of the parent ManagedHost.
C14_OwnConnection ==
    \A t \in ParallelTraces :
        \A w \in Executing(t) :
            /\ WorkerHandler(w).session # Ssh2HostHandler.session
            /\ \A v \in Executing(t) \ {w} :
                  WorkerHandler(w).session # WorkerHandler(v).session

AssessesUnconnected == op = "assess" /\ i <= Len(es) /\ ~connected
LastDone == done'[Len(done')]

\* C16 as stated: assess_compliance requires is_connected() before each
\* attribute: if the handler is not connected when attribute i is about to be
\* assessed, also after a loss of connection, NotConnectedToHost is returned
\* and attribute i is not assessed.
C16_ConnectedBeforeEach ==
    [][AssessesUnconnected =>
          /\ op' = "idle"
          /\ LastDone.result = NotConnected
          /\ LastDone.trace = trace]_vars

\* C16, with the one test the operation makes: assess_compliance requires is_connected() once, when it is
\* called: not connected then, it returns NotConnectedToHost and assesses
\* nothing; connected then, every attribute it reaches is assessed, whatever
\* has become of the connection, and NotConnectedToHost is not returned.
C16_ConnectedAtStart ==
    [][/\ (op = "idle" /\ Len(done') > Len(done) /\ LastDone.op = "assess") =>
            /\ ~connected
            /\ LastDone.result = NotConnected
            /\ LastDone.trace = <<>>
       /\ (op = "idle" /\ op' = "assess") => connected
       /\ (op = "assess" /\ op' = "assess" /\ trace' # trace) =>
            trace' = Append(trace, AssessEvent(i, es[i], host, up))
       /\ (op = "assess" /\ op' = "idle") =>
            /\ LastDone.result # NotConnected
            /\ i <= Len(es) =>
                  LastDone.trace = Append(trace, AssessEvent(i, es[i], host, up))]_vars

\* an assessment of two attributes that returned a value although the
\* connection was lost, and reported lost, after the first
C16_Witness ==
    /\ done # <<>> /\ done[Len(done)].op = "assess"
    /\ ReturnedOk(done[Len(done)])
    /\ Len(done[Len(done)].trace) = 2
    /\ done[Len(done)].trace[1].requests # <<>>
    /\ ~connected

\* every assessment made: by the operation in progress, by the finished ones
AllAssessments ==
    {trace[k].assessment : k \in AssessEvents(trace)}
        \cup UNION {{done[d].trace[k].assessment : k \in AssessEvents(done[d].trace)} :
                       d \in 1..Len(done)}
        \cup {acc[k].assessment : k \in {n \in 1..Len(acc) : op \in {"assess", "parallel"}}}

\* C17: a NonCompliant assessment returned by assess, whatever the attribute
\* kind, the attribute's content and the host, carries at least one remediation.
C17_NonEmptyRemediations ==
    \A a \in AllAssessments : a.tag = "NonCompliant" => a.remediations # <<>>

\* a package attribute with no state sub-goal, assessed NonCompliant for its
\* upgrade alone, in a finished assessment
C17_Witness ==
    \E d \in Finished("assess") :
        /\ ReturnedOk(done[d])
        /\ es[1].kind \in PackageKinds /\ es[1].state = "None"
        /\ done[d].result.list[1].assessment.tag = "NonCompliant"
        /\ Len(done[d].result.list[1].assessment.remediations) = 1

\* the event lists of every operation, finished or in progress
AllTraces == {done[d].trace : d \in 1..Len(done)} \cup {trace}

\* C18: when run_command or is_this_command_available returns an error during
\* an assessment or a remediation, the operation returns that error to its
\* caller (through the result channel in the parallel path) and never aborts.
C18_HandlerErrorsReturned ==
    ~up =>
        /\ \A t \in AllTraces :
              \A k \in 1..Len(t) :
                  t[k].requests # <<>> =>
                      /\ t[k].result = "Err"
                      /\ t[k].ev = "assess" => t[k].assessment.err = "FailureToRunCommand"
        /\ \A d \in 1..Len(done) : done[d].result.tag # "Panic"
        /\ ~Starved

\* the command line the privilege table gives
Prefix(privilege, user) ==
    LET sudo == IF privilege = "WithSudoRs" THEN "sudo-rs" ELSE "sudo"
    IN  IF user = CurrentUser
        THEN (IF privilege = "None" THEN <<>> ELSE <<sudo>>)
        ELSE IF user.kind = "PasswordLessUser"
        THEN <<sudo, "-u", user.username>>
        ELSE <<"echo", user.password, "|", sudo, "-S", "-u", user.username>>

\* C19: for every raw command c, privilege and identity, final_command gives
\* exactly `c 2>&1`, `sudo c 2>&1`, `sudo-rs c 2>&1` for the current user;
\* `sudo -u U c 2>&1` (None, WithSudo) and `sudo-rs -u U c 2>&1` (WithSudoRs)
\* for a passwordless user U; `echo P | sudo -S -u U c 2>&1` (None, WithSudo)
\* and `echo P | sudo-rs -S -u U c 2>&1` (WithSudoRs) for U with password P.
C19_FinalCommandTable ==
    call.f = "final_command" =>
        call.value = Prefix(call.privilege, call.user) \o call.cmd \o <<"2>&1">>

\* the command line of a user with a password, under sudo-rs
C19_Witness ==
    /\ call.f = "final_command"
    /\ call.user.kind = "UsernamePassword" /\ call.privilege = "WithSudoRs"
    /\ call.value = <<"echo", call.user.password, "|", "sudo-rs", "-S", "-u",
                      call.user.username, "id", "2>&1">>

\* C20: connect on an Ssh2 handler whose session is authenticated returns Ok
\* at once: no TCP connection, handshake or authentication is made and the
\* session is left as it was; connect calls repeated after a successful one
\* change nothing more.
C20_ConnectIdempotent ==
    \A k \in 1..Len(done) :
        done[k].op = "connect" =>
            /\ done[k].before.authenticated =>
                  /\ done[k].result = OkUnit
                  /\ done[k].after = done[k].before
            /\ (k > 1 /\ done[k - 1].op = "connect" /\ done[k - 1].result = OkUnit) =>
                  /\ done[k].result = OkUnit
                  /\ done[k].after = done[k - 1].after

\* three connect calls in a row: the first authenticates, the session has
\* seen one TCP connection, one handshake and one authentication in all
C20_Witness ==
    /\ Len(done) = 3
    /\ \A k \in 1..3 : done[k].op = "connect" /\ done[k].result = OkUnit
    /\ ~done[1].before.authenticated
    /\ session = [tcp |-> 1, handshakes |-> 1, auths |-> 1, authenticated |-> TRUE]

\* ------------------------------------------------------ builders and serde
\* the invariant of a package block: upgrade = true, or state and package
\* both set; and of a service block: no Active or Enabled on a service that
\* must not exist
Coherent(block) ==
    IF block.kind = "Service"
    THEN ~(block.exists = "False"
           /\ (block.current_status = "Active" \/ block.auto_start = "Enabled"))
    ELSE /\ ~(block.state = "None" /\ block.package = "None" /\ block.upgrade = "None")
         /\ ~(block.state # "None" /\ block.package = "None")

\* C21: build() returns Ok only for a block that satisfies the invariant of
\* its kind, and an error for a package block with every field unset or for
\* a service block with exists = false and Active or Enabled.
C21_BuildValidates ==
    call.f = "build" => (call.result.tag = "Ok" <=> Coherent(call.block))

\* C22: a package document is accepted only when it has no key outside
\* package, state and upgrade and it is `upgrade: true` or gives both a
\* package and a state.
C22_DocumentsValidated ==
    call.f = "from_str" =>
        (call.result.tag = "Ok" <=>
            /\ call.doc.unknown_key = "Missing"
            /\ \/ call.doc.upgrade = "true"
               \/ /\ call.doc.package \notin {"Missing", "Null"}
                  /\ call.doc.state \notin {"Missing", "Null"})

\* ------------------------------------------------------------------ secrets
\* the same value with another password (or key) in the place of its own
WithSecret(v, w) ==
    CASE v.type = "Credentials" -> [v EXCEPT !.password = w]
      [] v.type = "WhichUser" /\ v.user.kind = "UsernamePassword" ->
            [v EXCEPT !.user.password = w]
      [] v.type = "Ssh2AuthMethod" /\ v.method \in {"UsernamePassword", "KeyMemory"} ->
            [v EXCEPT !.secret = w]
      [] v.type = "Ssh2HostHandler"
            /\ v.auth.method \in {"UsernamePassword", "KeyMemory"} ->
            [v EXCEPT !.auth.secret = w]
      [] OTHER -> v

\* C23: the debug text of a value that holds a password does not depend on
\* the password: the same value with any other password has the same text.
C23_DebugHidesPassword ==
    call.f = "fmt" =>
        \A w \in {"pw1", "pw2"} : fmt(WithSecret(call.value, w)) = call.text

C25_ConnectThenJob ==
    call.f = "run" =>
        /\ (op # "idle" \/ done # <<>>) => call.connect.tag = "Ok"
        /\ call.connect.tag = "Err" =>
                /\ op = "idle" /\ done = <<>>
                /\ call.pc = "returned" /\ call.result = call.connect
        /\ op # "idle" => op = (IF call.job = "Assess" THEN "assess" ELSE "reach")
        /\ \A k \in 1..Len(done) :
                /\ k = 1
                /\ done[k].op = (IF call.job = "Assess" THEN "assess" ELSE "reach")
                /\ call.job = "Assess" => Calls(done[k].trace) = {}
        /\ (call.pc = "returned" /\ call.connect.tag = "Ok") =>
                /\ Len(done) = 1
                /\ call.result.tag = done[1].result.tag
                /\ call.result.tag = "Ok" =>
                        /\ call.result.correlation_id = call.correlation_id
                        /\ call.result.host_status = done[1].result

C25_Witness ==
    /\ call.f = "run" /\ call.pc = "returned" /\ call.job = "Reach"
    /\ call.result.tag = "Ok"
    /\ call.result.correlation_id = "id2"
    /\ Len(es) = 2
    /\ Calls(done[1].trace) # {}

\* ------------------------------------------------------------ apt commands
\* C26: the call that installs an apt package runs `apt-get update` and then
\* `DEBIAN_FRONTEND=noninteractive apt-get install -y <package>`, both under
\* the privilege of the attribute, in that order.
C26_UpdateThenInstall ==
    \A t \in AllTraces : \A k \in Calls(t) :
        (t[k].remediation.kind = "Apt" /\ t[k].remediation.api_call = "Install") =>
            t[k].requests =
                <<run(<<"apt-get", "update">>, t[k].remediation.privilege),
                  run(<<"DEBIAN_FRONTEND=noninteractive", "apt-get", "install", "-y",
                        t[k].remediation.package>>, t[k].remediation.privilege)>>

\* -------------------------------------------------------------- apt probes
\* the assess events of apt attributes that reached the package query
AptAssessments ==
    UNION {{t[k] : k \in {n \in AssessEvents(t) :
                            /\ t[n].assessment.tag \in {"Compliant", "NonCompliant"}
                            /\ es[t[n].i].kind = "Apt"
                            /\ es[t[n].i].state # "None"}} : t \in AllTraces}

\* C27: the apt assessment takes the package as installed exactly when dpkg -s
\* exits 0 and prints "Status: install" (h.pkg); a package known to dpkg with
\* another status is not installed, so state Present gives an Install.
C27_StatusInstall ==
    \A ev \in AptAssessments :
        LET a == es[ev.i]
            rems == IF ev.assessment.tag = "Compliant" THEN <<>>
                    ELSE ev.assessment.remediations
            installs == \E k \in 1..Len(rems) :
                            rems[k].kind = "Apt" /\ rems[k].api_call = "Install"
            removes == \E k \in 1..Len(rems) :
                            rems[k].kind = "Apt" /\ rems[k].api_call = "Remove"
        IN  /\ a.state = "Present" => (installs <=> ~ev.host.pkg)
            /\ a.state = "Absent" => (removes <=> ev.host.pkg)

\* ----------------------------------------------- order of the remediations
\* the assess events of package and service attributes that returned a list
ListsReturned ==
    UNION {{t[k] : k \in {n \in AssessEvents(t) :
                            /\ t[n].assessment.tag = "NonCompliant"
                            /\ es[t[n].i].kind \in PackageKinds \cup {"Service"}}} :
            t \in AllTraces}
\* remediation r is a None or one of the calls named
NoneOr(r, calls) == IsNoneRem(r) \/ (~IsNoneRem(r) /\ r.api_call \in calls)

\* C28: the list returned by assess has one entry per declared sub-goal, in
\* the order of the declaration: for a package the state entry (None, Install
\* or Remove) and then the Upgrade entry; for a service the Start|Stop entry
\* (or its None) and then the Enable|Disable entry (or its None); never more
\* than two entries.
C28_FixedOrder ==
    \A ev \in ListsReturned :
        LET a == es[ev.i]
            rems == ev.assessment.remediations
            first == IF a.kind = "Service" THEN a.current_status # "None"
                     ELSE a.state # "None"
            second == IF a.kind = "Service" THEN a.auto_start # "None"
                      ELSE a.upgrade = "True"
        IN  /\ Len(rems) <= 2
            /\ Len(rems) = (IF first THEN 1 ELSE 0) + (IF second THEN 1 ELSE 0)
            /\ first => NoneOr(rems[1], IF a.kind = "Service" THEN {"Start", "Stop"}
                                        ELSE {"Install", "Remove"})
            /\ second =>
                    IF a.kind = "Service"
                    THEN NoneOr(rems[Len(rems)], {"Enable", "Disable"})
                    ELSE ~IsNoneRem(rems[Len(rems)])
                         /\ rems[Len(rems)].api_call = "Upgrade"

\* a service to start that is already enabled: Start, then the None of the
\* auto_start sub-goal
C28_Witness ==
    \E ev \in ListsReturned :
        /\ es[ev.i].kind = "Service"
        /\ Len(ev.assessment.remediations) = 2
        /\ ~IsNoneRem(ev.assessment.remediations[1])
        /\ ev.assessment.remediations[1].api_call = "Start"
        /\ IsNoneRem(ev.assessment.remediations[2])

\* ------------------------------------------ exit codes of the service probes
\* the assess events of service attributes whose probes were answered
ServiceAssessments ==
    UNION {{t[k] : k \in {n \in AssessEvents(t) :
                            /\ es[t[n].i].kind = "Service"
                            /\ t[n].assessment.tag # "Panic"
                            /\ "systemctl" \in t[n].host.tools}} : t \in AllTraces}
\* the remediation list of an assessment holds the call named
HasCall(assessment, c) ==
    /\ assessment.tag = "NonCompliant"
    /\ \E k \in 1..Len(assessment.remediations) :
          /\ ~IsNoneRem(assessment.remediations[k])
          /\ assessment.remediations[k].api_call = c

\* C29: is-active exit 0 is Active, 3 Inactive, 1 fatal, 4 fatal unless
\* exists=false (then inactive); is-enabled exit 0 is Enabled, 1 Disabled, 4
\* fatal unless exists=false (then disabled); any other code is fatal, and
\* fatal means the assessment is the error FailedDryRunEvaluation; an absent
\* service declared exists=false, current_status=Inactive is Compliant.
C29_ExitCodes ==
    \A ev \in ServiceAssessments :
        LET a == es[ev.i]
            rcA == RcIsActive(ev.host)
            rcE == RcIsEnabled(ev.host)
            lenient == a.exists = "False"
            fatal == \/ rcA = 1 \/ rcA \notin {0, 1, 3, 4} \/ (rcA = 4 /\ ~lenient)
                     \/ rcE \notin {0, 1, 4} \/ (rcE = 4 /\ ~lenient)
        IN  /\ fatal => /\ ev.assessment.tag = "Err"
                        /\ ev.assessment.err = "FailedDryRunEvaluation"
            /\ (~fatal /\ ~lenient) =>
                  /\ a.current_status = "Active" =>
                        (HasCall(ev.assessment, "Start") <=> rcA # 0)
                  /\ a.current_status = "Inactive" =>
                        (HasCall(ev.assessment, "Stop") <=> rcA = 0)
                  /\ a.auto_start = "Enabled" =>
                        (HasCall(ev.assessment, "Enable") <=> rcE # 0)
                  /\ a.auto_start = "Disabled" =>
                        (HasCall(ev.assessment, "Disable") <=> rcE = 0)
            /\ (lenient /\ rcA = 4 /\ rcE = 4 /\ a.current_status = "Inactive"
                   /\ a.auto_start \in {"None", "Disabled"}) =>
                  ev.assessment.tag = "Compliant"

\* an absent unit (both probes exit 4) declared exists=false and Inactive has
\* been assessed Compliant
C29_Witness ==
    \E ev \in ServiceAssessments :
        /\ RcIsActive(ev.host) = 4 /\ RcIsEnabled(ev.host) = 4
        /\ es[ev.i].exists = "False" /\ es[ev.i].current_status = "Inactive"
        /\ es[ev.i].auto_start = "None"
        /\ ev.assessment.tag = "Compliant"

\* ------------------------------------------------- lineinfile, state Present
\* the assess events of lineinfile Present attributes whose preconditions hold
\* (sed available, the path a regular file, a line given)
PresentAssessments ==
    UNION {{t[k] : k \in {n \in AssessEvents(t) :
                            /\ es[t[n].i].kind = "LineInFile"
                            /\ es[t[n].i].state = "Present"
                            /\ es[t[n].i].line # "None"
                            /\ t[n].assessment.tag # "Panic"
                            /\ "sed" \in t[n].host.tools
                            /\ t[n].host.isfile}} : t \in AllTraces}
\* L: the numbers of the lines of the file that are the line
Occurrences(file, line) == {k \in 1..Len(file) : file[k] = line}
\* the assessment is one Add that puts the line where Add(position) puts it
AddsAt(ev, position, n) ==
    /\ ev.assessment.tag = "NonCompliant"
    /\ Len(ev.assessment.remediations) = 1
    /\ ev.assessment.remediations[1].kind = "LineInFile"
    /\ ev.assessment.remediations[1].api_call = "Add"
    /\ LineInFileCommand(ev.assessment.remediations[1], Len(ev.host.file))
         = LineInFileCommand(LineAdd(position, n, es[ev.i]), Len(ev.host.file))
\* the table: compliant when the line is where it is asked for, else one Add
PresentDecision(ev) ==
    LET a == es[ev.i]
        L == Occurrences(ev.host.file, a.line)
        n == Len(ev.host.file)
        inPlace == CASE a.position = "Top" -> 1 \in L
                     [] a.position = "Bottom" -> n \in L
                     [] a.position = "N" -> a.n \in L
                     [] OTHER -> L # {}
    IN  IF inPlace THEN ev.assessment.tag = "Compliant"
        ELSE AddsAt(ev, IF a.position \in {"Top", "N"} THEN a.position ELSE "Bottom", a.n)

\* C30: for lineinfile Present, with L the observed line numbers and n the
\* line count: Top is compliant iff 1 is in L, else Add at line 1; Bottom iff
\* n is in L, else Add at bottom; position N iff N is in L, else Add at N;
\* Anywhere or unset iff L is non-empty, else Add at bottom.
C30_PresentTable ==
    \A ev \in PresentAssessments : PresentDecision(ev)

\* C30 as the code has it: the table holds for Top, Bottom, Anywhere, unset
\* and for a position N that does not exceed the line count n; a position N
\* greater than n is the error FailedDryRunEvaluation whatever L is.
C30_PresentTableInRange ==
    \A ev \in PresentAssessments :
        IF es[ev.i].position = "N" /\ es[ev.i].n > Len(ev.host.file)
        THEN /\ ev.assessment.tag = "Err"
             /\ ev.assessment.err = "FailedDryRunEvaluation"
        ELSE PresentDecision(ev)

\* the line is in the file, not at the line N asked for (N within the file):
\* one Add at N
C30_Witness ==
    \E ev \in PresentAssessments :
        /\ es[ev.i].position = "N"
        /\ es[ev.i].n \in 1..Len(ev.host.file)
        /\ Occurrences(ev.host.file, es[ev.i].line) # {}
        /\ es[ev.i].n \notin Occurrences(ev.host.file, es[ev.i].line)
        /\ AddsAt(ev, "N", es[ev.i].n)

\* --------------------------------------------- lineinfile on an empty file
\* the lineinfile Present attributes that name the only place of an empty
\* file: Top, Bottom, Anywhere, unset, or line number 1
FirstPlace(a) ==
    /\ a.kind = "LineInFile" /\ a.state = "Present" /\ a.line # "None"
    /\ a.position \in {"Top", "Bottom", "Anywhere", "None"}
       \/ (a.position = "N" /\ a.n = 1)
\* the host answers, has sed, and the path is an empty regular file
EmptyFile(h) == "sed" \in h.tools /\ h.isfile /\ h.file = <<>>

\* C31: on an empty file, reach_compliance of a lineinfile Present attribute
\* at Top, Bottom, Anywhere, unset or N=1 assesses it NonCompliant with one
\* Add, the call of that Add runs `echo '<line>' >> <file>`, and when the
\* command exits 0 the call is a Success and the file holds the line.
C31_EmptyFileAppend ==
    /\ \A t \in ReachTraces : \A k \in AssessEvents(t) :
          (FirstPlace(es[t[k].i]) /\ EmptyFile(t[k].host) /\ t[k].result # "Panic") =>
              /\ t[k].result = "NonCompliant"
              /\ Len(t[k].assessment.remediations) = 1
              /\ k < Len(t) =>
                    /\ t[k + 1].ev = "call"
                    /\ t[k + 1].requests[Len(t[k + 1].requests)]
                         = run(EchoAppendCmd(es[t[k].i].line, es[t[k].i].filepath),
                               es[t[k].i].privilege)
    /\ (op = "reach" /\ pc = "remediate" /\ up /\ FirstPlace(es[i]) /\ EmptyFile(host)) =>
          LET c == RemediationReach(remediations[j], host, up, 0)
          IN  /\ c.tag = "Called" /\ c.outcome = "Success"
              /\ c.host.file = <<es[i].line>>

\* ------------------------------------- lineinfile position out of range
\* the assess events of lineinfile Present attributes at a position N greater
\* than the line count of the file (sed available, the path a regular file)
OutOfRange(t) ==
    {k \in AssessEvents(t) :
        /\ es[t[k].i].kind = "LineInFile" /\ es[t[k].i].state = "Present"
        /\ es[t[k].i].position = "N" /\ es[t[k].i].n > Len(t[k].host.file)
        /\ "sed" \in t[k].host.tools /\ t[k].host.isfile
        /\ t[k].result # "Panic"}
\* a request that writes to a file
Modifies(request) ==
    \E w \in 1..Len(request.cmd) : request.cmd[w] \in {"-i", ">>", ">"}

\* C32: lineinfile Present at a position N greater than the line count of the
\* file is rejected: assess returns the error "Position value out of range",
\* there is no remediation (nothing is called after it, the operation ends
\* with that error), and no command that modifies the file is run.
C32_OutOfRangeRejected ==
    /\ \A t \in AllTraces : \A k \in OutOfRange(t) :
          /\ t[k].result = "Err"
          /\ t[k].assessment.err = "FailedDryRunEvaluation"
          /\ t[k].assessment.msg = "Position value out of range"
          /\ k = Len(t)
          /\ \A q \in 1..Len(t[k].requests) : ~Modifies(t[k].requests[q])
    /\ \A d \in 1..Len(done) :
          OutOfRange(done[d].trace) # {} =>
              /\ done[d].result.tag = "Err"
              /\ done[d].after.file = done[d].before.file

\* reach_compliance has returned from a file of one line and a position 2
C32_Witness ==
    \E d \in 1..Len(done) :
        /\ done[d].op = "reach"
        /\ \E k \in OutOfRange(done[d].trace) :
              /\ es[done[d].trace[k].i].n = 2
              /\ Len(done[d].before.file) = 1
        /\ done[d].result.tag = "Err"

\* ------------------------------------------------ lineinfile Add at bottom
\* the finished reach_compliance runs of a lone lineinfile Present Bottom
\* attribute that started on a non-empty file not ending with the line and
\* whose Add was called with Success
BottomAdded ==
    {d \in Finished("reach") :
        /\ Len(es) = 1 /\ es[1].kind = "LineInFile"
        /\ es[1].state = "Present" /\ es[1].position = "Bottom"
        /\ done[d].before.file # <<>>
        /\ done[d].before.file[Len(done[d].before.file)] # es[1].line
        /\ \E k \in Calls(done[d].trace) :
              /\ done[d].trace[k].remediation.api_call = "Add"
              /\ done[d].trace[k].result = "Success"}

\* C33: after a successful Add at bottom on a non-empty file that did not end
\* with the line, the line is the last line of the file, and the assessment
\* of the same attribute that comes next is Compliant.
C33_BottomIsLast ==
    \A d \in BottomAdded :
        /\ done[d].after.file # <<>>
        /\ done[d].after.file[Len(done[d].after.file)] = es[1].line
        /\ (d < Len(done) /\ done[d + 1].op = "assess" /\ done[d + 1].trace # <<>>
              /\ done[d + 1].trace[1].result # "Panic") =>
                done[d + 1].trace[1].result = "Compliant"

\* ------------------------------------------------------- Debug attributes
\* the events (assessments and calls) of the Debug attributes
DebugEvents(t) == {k \in 1..Len(t) : es[t[k].i].kind = "Debug"}

\* C34: a Debug attribute never executes anything on the host: no event of
\* it, in assess_compliance or in reach_compliance, issues a run_command, and
\* its assessment is the one-entry list [None(msg)] with the attribute's msg.
C34_DebugNeverExecutes ==
    \A t \in AllTraces : \A k \in DebugEvents(t) :
        /\ t[k].requests = <<>>
        /\ t[k].ev = "assess" =>
              /\ t[k].result = "NonCompliant"
              /\ t[k].assessment.remediations = <<RemNone(es[t[k].i].msg)>>

\* reach_compliance has assessed a Debug attribute and handed its entry to
\* Remediation::reach_compliance
C34_Witness ==
    \E d \in Finished("reach") : \E k \in DebugEvents(done[d].trace) :
        done[d].trace[k].ev = "call"

\* ------------------------------- what a later attribute's assessment sees
\* what a host is like once the remediation has been called with Success
Remedied(rem, h) ==
    CASE rem.kind \in PackageKinds /\ rem.api_call = "Install" -> h.pkg
      [] rem.kind \in PackageKinds /\ rem.api_call = "Remove" -> ~h.pkg
      [] rem.kind = "Service" /\ rem.api_call = "Start" -> h.svc.active
      [] rem.kind = "Service" /\ rem.api_call = "Stop" -> ~h.svc.active
      [] rem.kind = "Service" /\ rem.api_call = "Enable" -> h.svc.enabled
      [] rem.kind = "Service" /\ rem.api_call = "Disable" -> ~h.svc.enabled
      [] rem.kind = "LineInFile" /\ rem.api_call = "Add" ->
            \E l \in 1..Len(h.file) : h.file[l] = rem.line_content
      [] rem.kind = "LineInFile" /\ rem.api_call = "Delete" ->
            \A l \in 1..Len(h.file) : h.file[l] # rem.line_content
      [] OTHER -> TRUE
\* the assessments of reach_compliance that come after another attribute
LaterAssessments(t) == {k \in AssessEvents(t) : k > 1}

\* C35: in reach_compliance, attribute i+1 is assessed only when attribute i
\* is done: the event before its assessment is the assessment of attribute i
\* that asked for nothing, or the return of the last remediation of attribute
\* i, all of them having been called in order; and the assessment is made on
\* the host as the remediations called before it have left it.
C35_AssessAfterRemediations ==
    \A t \in ReachTraces : \A k \in LaterAssessments(t) :
        /\ t[k - 1].i = t[k].i - 1
        /\ t[k - 1].ev = "assess" =>
              \/ t[k - 1].result = "Compliant"
              \/ (t[k - 1].result = "NonCompliant"
                    /\ t[k - 1].assessment.remediations = <<>>)
        /\ t[k - 1].ev = "call" =>
              LET n == t[k - 1].j
              IN  /\ k - 1 - n >= 1
                  /\ t[k - 1 - n].ev = "assess" /\ t[k - 1 - n].i = t[k - 1].i
                  /\ t[k - 1 - n].result = "NonCompliant"
                  /\ n = Len(t[k - 1 - n].assessment.remediations)
                  /\ \A l \in 1..n :
                        /\ t[k - 1 - n + l].ev = "call" /\ t[k - 1 - n + l].j = l
                        /\ t[k - 1 - n + l].remediation
                             = t[k - 1 - n].assessment.remediations[l]
                        /\ t[k - 1 - n + l].result = "Success"
                  /\ Remedied(t[k - 1].remediation, t[k].host)

\* the second attribute has been assessed on a host that the first
\* attribute's remediation changed: the package it installed is there
C35_Witness ==
    \E d \in Finished("reach") : \E k \in LaterAssessments(done[d].trace) :
        /\ done[d].trace[k - 1].ev = "call"
        /\ done[d].trace[k - 1].remediation.kind \in PackageKinds
        /\ done[d].trace[k - 1].remediation.api_call = "Install"
        /\ ~done[d].before.pkg
        /\ done[d].trace[k].host.pkg
        /\ es[done[d].trace[k].i].kind \in PackageKinds

\* ---------------------------------- the list reach_compliance returns
\* the Ok values returned by reach_compliance
ReachResults == {done[d].result : d \in {k \in Finished("reach") : ReturnedOk(done[k])}}

\* C36: when reach_compliance returns Ok, its list holds the first attributes
\* of the ExpectedState in declaration order; it holds all of them unless the
\* host status is FailedReachedCompliance, and then its last entry, and no
\* other, is FailedReachedCompliance, the earlier ones being AlreadyCompliant
\* or ReachedCompliance.
C36_ListIsPrefix ==
    \A r \in ReachResults :
        /\ Len(r.list) <= Len(es)
        /\ \A k \in 1..Len(r.list) : r.list[k].attribute = es[k]
        /\ r.status # "FailedReachedCompliance" => Len(r.list) = Len(es)
        /\ r.status = "FailedReachedCompliance" =>
              /\ r.list # <<>>
              /\ r.list[Len(r.list)].status = "FailedReachedCompliance"
              /\ \A k \in 1..(Len(r.list) - 1) :
                    r.list[k].status \in {"AlreadyCompliant", "ReachedCompliance"}

\* the first of two attributes failed: the list stops there, a proper prefix
\* with one failed entry at its end
C36_Witness ==
    \E r \in ReachResults :
        /\ r.status = "FailedReachedCompliance"
        /\ Len(es) = 2
        /\ Len(r.list) = 1

\* ------------------------------------------- what a Compliant service is
\* C37: a service attribute is assessed Compliant only if the observed state
\* satisfies every declared sub-goal, whatever exists is: declared Active
\* (Inactive) means is-active answers active (not active), declared Enabled
\* (Disabled) means is-enabled answers enabled (not enabled).
C37_CompliantMeansSatisfied ==
    \A ev \in ServiceAssessments :
        ev.assessment.tag = "Compliant" =>
            /\ es[ev.i].current_status = "Active" => RcIsActive(ev.host) = 0
            /\ es[ev.i].current_status = "Inactive" => RcIsActive(ev.host) # 0
            /\ es[ev.i].auto_start = "Enabled" => RcIsEnabled(ev.host) = 0
            /\ es[ev.i].auto_start = "Disabled" => RcIsEnabled(ev.host) # 0

\* ------------------------------------------- what a NonCompliant list holds
\* C38: every NonCompliant assessment holds at least one remediation that is
\* not a None: whatever the kind of the attribute, an assessment whose entries
\* are all None(_) is Compliant.
C38_SomeConcreteRemediation ==
    \A t \in AllTraces : \A k \in AssessEvents(t) :
        t[k].result = "NonCompliant" =>
            \E l \in 1..Len(t[k].assessment.remediations) :
                ~IsNoneRem(t[k].assessment.remediations[l])

\* ------------------------------------------------- the status of a step
\* apply has returned Ok
StepApplied == call.f = "apply" /\ call.pc = "returned" /\ call.ret.tag = "Ok"
SomeFailure(apicallresults) ==
    \E k \in 1..Len(apicallresults) : apicallresults[k] = "Failure"

\* C39: when StepFlow::apply returns Ok, step_status is ApplyFailed,
\* ApplyFailedButAllowed or ApplySuccessful, never NotRunYet, AlreadyMatched
\* or ChangeRequired: ApplyFailed iff the step is not allowed to fail and some
\* API call result is a Failure, ApplyFailedButAllowed iff it is allowed to
\* fail and some result is a Failure, ApplySuccessful otherwise.
C39_FinalStepStatus ==
    StepApplied =>
        /\ call.step_status \in {"ApplyFailed", "ApplyFailedButAllowed", "ApplySuccessful"}
        /\ call.step_status = "ApplyFailed"
              <=> (~call.allowed_to_fail /\ SomeFailure(call.step_result.list))
        /\ call.step_status = "ApplyFailedButAllowed"
              <=> (call.allowed_to_fail /\ SomeFailure(call.step_result.list))
        /\ call.step_status = "ApplySuccessful" <=> ~SomeFailure(call.step_result.list)

\* a step allowed to fail whose first API call failed and whose last one
\* succeeded has been applied
C39_Witness ==
    /\ StepApplied
    /\ call.allowed_to_fail
    /\ Len(call.step_result.list) >= 2
    /\ call.step_result.list[1] = "Failure"
    /\ call.step_result.list[Len(call.step_result.list)] = "ChangeSuccessful"
    /\ call.step_status = "ApplyFailedButAllowed"

====
